---- MODULE Spec2Model ----
(***************************************************************************)
(* Stateless Yjs relay: the binary message codec, the Redis persistence    *)
(* provider (update log + snapshot + compaction), the Redis awareness      *)
(* store and the WebSocket-over-HTTP session handler.                      *)
(*                                                                         *)
(* Bytes are naturals 0..255, byte arrays are sequences of bytes.  A Yjs   *)
(* document is the set of update items merged into it: Y.applyUpdate is    *)
(* set union (commutative, idempotent), Y.encodeStateAsUpdate encodes the  *)
(* set as a count byte followed by the items in increasing order.          *)
(***************************************************************************)
EXTENDS Integers, Sequences, FiniteSets, TLC

\* ------------------------------------------------------------------ bounds

\* Update items a client can put into an update blob.
MaxItem == 2
\* Largest awareness clock a client sends.
MaxClock == 1
\* Largest compactionThreshold tried by the sequential persistence runs.
MaxThreshold == 3
\* Calls each of the concurrent callers of the persistence provider makes.
MaxCalls == 2
\* Calls the one sequential caller of the persistence provider makes.
MaxSeqCalls == 5
\* Inbound events (frames and close events) the gateway delivers in all.
MaxEvents == 2
\* Inbound events of the one connection of the presence runs.
MaxPresenceEvents == 3
\* Inbound events of the one connection of the failing-batch runs.
MaxBatchEvents == 3
\* Longest time-to-live (in seconds) an Awareness Store is created with.
MaxTtl == 2
\* Calls the caller of the Awareness Store makes.
MaxTtlCalls == 4
\* Calls of the caller that stores blobs again.
MaxAgainCalls == 4
\* Inbound events of the requests two handler instances serve in turn.
MaxRunEvents == 3
\* Inbound events of the connection that sends presence tables.
MaxEntryEvents == 2
\* Inbound events of the two connections that lose an update and resync, and
\* the number of them during which the store can fail.
MaxResyncEvents == 3
MaxFailedEvents == 1
\* Inbound events of the two connections of which one opens while the other
\* sends updates.
MaxGapEvents == 2
\* Inbound events of the connection whose presence is replayed to the next.
MaxReplayEvents == 2
\* Calls of the caller whose storeUpdate fails after the append.
MaxFailCalls == 3
\* Calls of the caller that names the document of each call.
MaxNamedCalls == 3
\* Inbound events of the connection that sends a payload that is no update.
MaxPoisonEvents == 3
\* Calls of each of the two callers that read and retry.
MaxRetryCalls == 2
\* How many client ids and clocks a removal frame is encoded for at the start
\* of each length of a variable-length integer (one, two and three bytes).
MaxRemovalSpan == 3

\* ------------------------------------------------- protocol constants

messageSync == 0
messageAwareness == 1
messageAuth == 2
messageQueryAwareness == 3
messageYjsSyncStep1 == 0
messageYjsSyncStep2 == 1
messageYjsUpdate == 2

\* compactionThreshold of the handler runs and of the concurrent persistence
\* runs (the option's default is 100; 2 keeps compaction within reach).
HandlerThreshold == 2

Items == 1..MaxItem
Clocks == 0..MaxClock
\* Yjs client ids; 200 needs two bytes as a variable-length integer.
ClientIds == {1, 200}
Tasks == {1, 2}
Conns == {1, 2}

\* ------------------------------------------------------------ lib0 codec

RECURSIVE WriteVarUint(_)
\* encoding.writeVarUint: 7 bits per byte, low group first, bit 8 = "more".
WriteVarUint(num) ==
    IF num > 127 THEN <<128 + (num % 128)>> \o WriteVarUint(num \div 128)
    ELSE <<num>>

\* encoding.writeVarUint8Array: length prefix, then the bytes.
WriteVarUint8Array(bytes) == WriteVarUint(Len(bytes)) \o bytes

\* The UTF-8 bytes of the strings the awareness protocol uses.
StrNull == <<110, 117, 108, 108>>
StrEmptyObject == <<123, 125>>

\* encoding.writeVarString
WriteVarString(utf8) == WriteVarUint8Array(utf8)

\* A decoder step: ok = FALSE when the read throws; val is what was read,
\* pos the number of bytes consumed so far.
ReadError == [ok |-> FALSE, val |-> 0, pos |-> 0]

RECURSIVE ReadVarUintFrom(_, _, _, _)
ReadVarUintFrom(arr, pos, num, mult) ==
    IF pos >= Len(arr) THEN ReadError
    ELSE LET r == arr[pos + 1]
             n == num + (r % 128) * mult
         IN IF r < 128 THEN [ok |-> TRUE, val |-> n, pos |-> pos + 1]
            ELSE ReadVarUintFrom(arr, pos + 1, n, mult * 128)

\* decoding.readVarUint
ReadVarUint(arr, pos) == ReadVarUintFrom(arr, pos, 0, 1)

\* decoding.readVarUint8Array: a length, then that many bytes.
ReadVarUint8Array(arr, pos) ==
    LET l == ReadVarUint(arr, pos)
    IN IF ~l.ok THEN ReadError
       ELSE IF l.pos + l.val > Len(arr) THEN ReadError
       ELSE [ok |-> TRUE,
             val |-> SubSeq(arr, l.pos + 1, l.pos + l.val),
             pos |-> l.pos + l.val]

\* decoding.readVarString
ReadVarString(arr, pos) == ReadVarUint8Array(arr, pos)

\* ---------------------------------------------------------- handler codec

emptyStateVector == <<0>>

encodeSyncStep1(stateVector) ==
    WriteVarUint(messageSync) \o WriteVarUint(messageYjsSyncStep1)
        \o WriteVarUint8Array(stateVector)

\* A step2 whose payload lacks its length prefix.
encodeSyncStep2Bare(update) ==
    WriteVarUint(messageSync) \o WriteVarUint(messageYjsSyncStep2) \o update

encodeSyncStep2(update) ==
    WriteVarUint(messageSync) \o WriteVarUint(messageYjsSyncStep2)
        \o WriteVarUint8Array(update)

\* A removal that repeats the stored clock instead of out-ranking it.
encodeDisconnectAwarenessSameClock(clientId, clock) ==
    LET awarenessUpdate == WriteVarUint(1) \o WriteVarUint(clientId)
                             \o WriteVarUint(clock) \o WriteVarString(StrNull)
    IN WriteVarUint(messageAwareness) \o WriteVarUint8Array(awarenessUpdate)

encodeDisconnectAwareness(clientId, clock) ==
    LET awarenessUpdate == WriteVarUint(1) \o WriteVarUint(clientId)
                             \o WriteVarUint(clock + 1) \o WriteVarString(StrNull)
    IN WriteVarUint(messageAwareness) \o WriteVarUint8Array(awarenessUpdate)

encodeAwarenessMessage(awarenessUpdate) ==
    WriteVarUint(messageAwareness) \o WriteVarUint8Array(awarenessUpdate)

RECURSIVE ParseClients(_, _, _, _)
ParseClients(update, pos, left, clients) ==
    IF left = 0 THEN [ok |-> TRUE, val |-> clients]
    ELSE LET id == ReadVarUint(update, pos)
         IN IF ~id.ok THEN [ok |-> FALSE, val |-> <<>>]
            ELSE LET ck == ReadVarUint(update, id.pos)
                 IN IF ~ck.ok THEN [ok |-> FALSE, val |-> <<>>]
                    ELSE LET st == ReadVarString(update, ck.pos)
                         IN IF ~st.ok THEN [ok |-> FALSE, val |-> <<>>]
                            ELSE ParseClients(update, st.pos, left - 1,
                                   Append(clients,
                                     [clientId |-> id.val, clock |-> ck.val,
                                      isNull |-> st.val = StrNull]))

\* A parser that takes the clock for the client id and the client id for the
\* clock.
parseAwarenessUpdateSwapped(update) ==
    LET len == ReadVarUint(update, 0)
        r == ParseClients(update, len.pos, len.val, <<>>)
    IN IF ~len.ok THEN [ok |-> FALSE, val |-> <<>>]
       ELSE [r EXCEPT !.val = [i \in DOMAIN r.val |->
                                 [r.val[i] EXCEPT !.clientId = r.val[i].clock,
                                                  !.clock = r.val[i].clientId]]]

\* parseAwarenessUpdate: ok = FALSE when a read throws.
parseAwarenessUpdate(update) ==
    LET len == ReadVarUint(update, 0)
    IN IF ~len.ok THEN [ok |-> FALSE, val |-> <<>>]
       ELSE ParseClients(update, len.pos, len.val, <<>>)

\* ----------------------------------------------------- JavaScript strings

Digit(d) == 48 + d

RECURSIVE String(_)
\* String(n) of a non-negative safe integer: its decimal digits (as bytes).
String(n) == IF n < 10 THEN <<Digit(n)>> ELSE String(n \div 10) \o <<Digit(n % 10)>>

IsDigit(b) == b >= 48 /\ b <= 57

RECURSIVE ParseDigits(_, _, _)
ParseDigits(s, i, acc) ==
    IF i > Len(s) \/ ~IsDigit(s[i]) THEN acc
    ELSE ParseDigits(s, i + 1, acc * 10 + (s[i] - 48))

\* parseInt(s, 10) of a string without sign or blanks: the leading digits;
\* NaN (ok = FALSE) when there is none.
parseInt(s) ==
    IF Len(s) = 0 \/ ~IsDigit(s[1]) THEN [ok |-> FALSE, val |-> 0]
    ELSE [ok |-> TRUE, val |-> ParseDigits(s, 1, 0)]

\* ------------------------------------------------------------------- Yjs

RECURSIVE SortedSeq(_)
SortedSeq(S) ==
    IF S = {} THEN <<>>
    ELSE LET m == CHOOSE x \in S : \A y \in S : x <= y
         IN <<m>> \o SortedSeq(S \ {m})

\* Y.encodeStateAsUpdate(doc)
EncodeStateAsUpdate(doc) == <<Cardinality(doc)>> \o SortedSeq(doc)

\* The items of an update blob.
UpdateItems(update) == {update[i] : i \in 2..Len(update)}

\* A merge that takes out what is there already.
ApplyUpdateToggle(doc, update) ==
    (doc \ UpdateItems(update)) \cup (UpdateItems(update) \ doc)

\* Y.applyUpdate(doc, update)
ApplyUpdate(doc, update) == doc \cup UpdateItems(update)

RECURSIVE ApplyAll(_, _)
\* for (const update of updates) Y.applyUpdate(doc, update)
ApplyAll(doc, updates) ==
    IF updates = <<>> THEN doc
    ELSE ApplyAll(ApplyUpdate(doc, Head(updates)), Tail(updates))

\* ------------------------------------------------------------------ state

VARIABLES
    redis,    \* the backing store: snapshot, updates (the log), awareness
              \* (with expire, the seconds each awareness key has left)
    cfg,      \* the options the providers and the handler were created with,
              \* and the run's budgets (calls, events; relays: the clocks a
              \* connection relayed are recorded; batches: the outcome of
              \* each frame of a request is recorded)
    task,     \* each invocation's position and its provider-call locals
    req,      \* each handler invocation's request and wsContext
    gw,       \* the gateway: per connection its state and its metadata
    obs,      \* observation: what was appended, relayed, published; per
              \* client the blob last set (last) and the seconds since (age);
              \* the blobs stored, the result of the caller's last getState
              \* if no new blob was stored since, and whether one was stored
              \* again since; what the request being served was given (run),
              \* what the first request served was given and produced (ref),
              \* and the metadata of the last response (kept); the number of
              \* writes to the document's keys (writes), what it was when
              \* each caller's getState began (began), and what the getState
              \* that returned last returned (reads); the items of the
              \* updates whose storeUpdate failed (unsaved); the items of
              \* the updates broadcast (published) and those each
              \* connection was sent by the gateway (delivered); per client
              \* the connection whose request set the presence key that is
              \* there, 0 when it was never set and -1 when it was deleted
              \* (writer); the store, the update and the position of the
              \* caller's storeUpdate when a command after its append
              \* failed (fail)
    events    \* inbound events delivered so far

vars == <<redis, cfg, task, req, gw, obs, events>>

\* A Redis string key: <<>> when the key is missing, <<value>> otherwise.
Missing == <<>>
Present(v) == <<v>>

\* Update blobs a client can send: every set of items, the empty update too.
UpdateBlobs == {EncodeStateAsUpdate(S) : S \in SUBSET Items}

IdleTask ==
    [pc |-> "idle", op |-> "none", cont |-> "direct", update |-> <<>>,
     doc |-> {}, count |-> 0, ret |-> Missing, threw |-> FALSE, calls |-> 0,
     base |-> {}, lenAfter |-> 0, docName |-> <<>>]

NoMeta == [id |-> <<>>, clock |-> <<>>]

\* got: the event being handled ("open", "frame", "close"); fx: the store
\* calls, sends and publishes made for it so far, in order; batch: how the
\* frames handled before it in the request ended.
IdleReq ==
    [conn |-> 0, opening |-> FALSE, left |-> 0, got |-> "none", msg |-> <<>>,
     accepted |-> FALSE, out |-> <<>>, closed |-> FALSE, meta |-> NoMeta,
     fx |-> <<>>, clients |-> <<>>, keys |-> <<>>, batch |-> <<>>]

InitCommon ==
    /\ redis = [snapshot |-> Missing, updates |-> <<>>,
                awareness |-> [c \in ClientIds |-> Missing],
                expire |-> [c \in ClientIds |-> 0], space |-> {}]
    /\ task = [t \in Tasks |-> IdleTask]
    /\ req = [t \in Tasks |-> IdleReq]
    /\ gw = [state |-> [c \in Conns |-> "new"], meta |-> [c \in Conns |-> NoMeta]]
    /\ obs = [appended |-> {},
              relayed |-> [c \in Conns |-> [i \in ClientIds |-> -1]],
              last |-> [c \in ClientIds |-> Missing],
              age |-> [c \in ClientIds |-> 0],
              stored |-> {}, result |-> <<>>, again |-> FALSE,
              run |-> <<>>, ref |-> <<>>, kept |-> NoMeta,
              writes |-> 0, began |-> [t \in Tasks |-> 0], reads |-> <<>>,
              unsaved |-> {}, published |-> {},
              delivered |-> [c \in Conns |-> {}],
              writer |-> [c \in ClientIds |-> 0], fail |-> <<>>,
              written |-> {}]
    /\ events = 0

RECURSIVE ItemsOfAll(_)
ItemsOfAll(updates) ==
    IF updates = <<>> THEN {}
    ELSE UpdateItems(Head(updates)) \cup ItemsOfAll(Tail(updates))

\* merge(snapshot, update log): what the store holds of the document.
Stored ==
    (IF redis.snapshot = Missing THEN {} ELSE UpdateItems(redis.snapshot[1]))
        \cup ItemsOfAll(redis.updates)

\* ------------------------------------------------------- awareness store

\* A set that leaves the time-to-live of a key that is there as it is.
ExpiryKept(left) == IF left > 0 THEN left ELSE cfg.ttl

\* SETEX key ttl value: the key lives ttl seconds from now, whatever it had left.
Expiry(left) == cfg.ttl

\* set, lines 171-172: redis.setex(key, ttl, update)
SetEx(r, clientId, update) ==
    [r EXCEPT !.awareness[clientId] = Present(update),
              !.expire[clientId] = Expiry(@)]

\* remove, lines 176-177: redis.del(key)
Del(r, clientId) ==
    [r EXCEPT !.awareness[clientId] = Missing, !.expire[clientId] = 0]

\* ---------------------------------------------------- persistence provider

\* sendBinary / publish / store effects of one invocation, in order.
Effect(op, ok, id, data) == [op |-> op, ok |-> ok, id |-> id, data |-> data]

Fx(t, op, ok, id, data) == Append(req[t].fx, Effect(op, ok, id, data))

\* A continuation that puts step2 ahead of everything queued so far.
AfterGetStateFirst(t, ok, state) ==
    LET send == ok /\ state # Missing /\ Len(state[1]) > 0
        frame == IF send THEN encodeSyncStep2(state[1]) ELSE <<>>
        fx1 == Fx(t, "getState", ok, 0, state)
    IN [req[t] EXCEPT
          !.out = IF send THEN <<[type |-> "BINARY", content |-> frame]>> \o @
                  ELSE @,
          !.fx = IF send
                 THEN Append(fx1, Effect("send", TRUE, 0, frame))
                 ELSE fx1]

\* The handler's continuation after `await persistence.getState(docName)`, lines
\* 252-261 and 352-358: a state that is there and not empty is sent as step2.
AfterGetState(t, ok, state) ==
    LET send == ok /\ state # Missing /\ Len(state[1]) > 0
        frame == IF send THEN encodeSyncStep2(state[1]) ELSE <<>>
        fx1 == Fx(t, "getState", ok, 0, state)
    IN [req[t] EXCEPT
          !.out = IF send THEN Append(@, [type |-> "BINARY", content |-> frame])
                  ELSE @,
          !.fx = IF send
                 THEN Append(fx1, Effect("send", TRUE, 0, frame))
                 ELSE fx1]

\* The handler's continuation after `await persistence.storeUpdate(...)`.
AfterStoreUpdate(t, ok) ==
    [req[t] EXCEPT !.fx = Fx(t, "storeUpdate", ok, 0, task[t].update)]

\* The open branch after the persisted state, line 265: the stored awareness
\* is loaded when there is a store.
AfterOpenState == IF cfg.awareness THEN "a_keys" ELSE "h_recv"

\* A handler without the inner try/catch blocks: a provider call that fails
\* is caught by the catch around the message, and the statements after the
\* call are skipped.
ResumeOuterCatch(t, tk, ok, state) ==
    IF tk.cont = "direct"
    THEN /\ task' = [task EXCEPT ![t] =
                       [tk EXCEPT !.pc = "done", !.ret = state, !.threw = ~ok,
                                  !.doc = {}, !.count = 0, !.update = <<>>]]
         /\ req' = req
    ELSE IF ~ok
    THEN /\ task' = [task EXCEPT ![t] = [tk EXCEPT !.pc = "h_recv"]]
         /\ req' = [req EXCEPT ![t] =
                      [@ EXCEPT !.fx = Fx(t, IF tk.cont = "store" THEN "storeUpdate"
                                             ELSE "getState", FALSE, 0, Missing)]]
    ELSE IF tk.cont = "open"
    THEN /\ task' = [task EXCEPT ![t] = [tk EXCEPT !.pc = AfterOpenState]]
         /\ req' = [req EXCEPT ![t] = AfterGetState(t, ok, state)]
    ELSE IF tk.cont = "step1"
    THEN /\ task' = [task EXCEPT ![t] = [tk EXCEPT !.pc = "h_recv"]]
         /\ req' = [req EXCEPT ![t] = AfterGetState(t, ok, state)]
    ELSE /\ task' = [task EXCEPT ![t] = [tk EXCEPT !.pc = "h_publish"]]
         /\ req' = [req EXCEPT ![t] = AfterStoreUpdate(t, ok)]

\* Where a provider call returns to.  A direct caller just sees the result;
\* the handler goes on with the statement after its await.
Resume(t, tk, ok, state) ==
    IF tk.cont = "direct"
    THEN /\ task' = [task EXCEPT ![t] =
                       [tk EXCEPT !.pc = "done", !.ret = state, !.threw = ~ok,
                                  !.doc = {}, !.count = 0, !.update = <<>>]]
         /\ req' = req
    ELSE IF tk.cont = "open"
    THEN /\ task' = [task EXCEPT ![t] = [tk EXCEPT !.pc = AfterOpenState]]
         /\ req' = [req EXCEPT ![t] = AfterGetState(t, ok, state)]
    ELSE IF tk.cont = "step1"
    THEN /\ task' = [task EXCEPT ![t] = [tk EXCEPT !.pc = "h_recv"]]
         /\ req' = [req EXCEPT ![t] = AfterGetState(t, ok, state)]
    ELSE /\ task' = [task EXCEPT ![t] = [tk EXCEPT !.pc = "h_publish"]]
         /\ req' = [req EXCEPT ![t] = AfterStoreUpdate(t, ok)]

\* A load that forgets the snapshot.
LoadSnapshotSkip(snapshot) == {}

\* `if (snapshot) Y.applyUpdate(doc, snapshot)` on a fresh Y.Doc.
LoadSnapshot(snapshot) ==
    IF snapshot = Missing THEN {} ELSE ApplyUpdate({}, snapshot[1])

\* The caller keeps what its getState returned.
Remember(t) ==
    IF cfg.returns /\ task[t].pc = "done" /\ task[t].op = "getState"
    THEN [obs EXCEPT !.result = <<task[t].ret>>, !.again = FALSE]
    ELSE IF cfg.retry /\ task[t].pc = "done" /\ task[t].op = "getState"
            /\ ~task[t].threw
    THEN [obs EXCEPT !.reads = <<[at |-> obs.began[t], ret |-> task[t].ret]>>]
    ELSE obs

\* A write to the snapshot or to the log is counted.
Wrote(o) == IF cfg.retry THEN [o EXCEPT !.writes = @ + 1] ELSE o

\* A read that takes the log with it.
AfterReadDrained(r) == [r EXCEPT !.updates = <<>>]

\* getState, lines 51 and 57: GET and LRANGE leave the keys as they are.
AfterRead(r) == r

\* A direct caller: persistence.getState(docName).
CallGetState(t) ==
    /\ task[t].pc \in {"idle", "done"}
    /\ task[t].calls < cfg.calls
    /\ task' = [task EXCEPT ![t] =
                  [@ EXCEPT !.pc = "g_get", !.op = "getState", !.cont = "direct",
                            !.doc = {}, !.ret = Missing, !.threw = FALSE,
                            !.calls = @ + 1, !.lenAfter = 0,
                            !.base = obs.appended \cap Stored]]
    /\ obs' = [Remember(t) EXCEPT
                 !.began[t] = IF cfg.retry THEN obs.writes ELSE @]
    /\ UNCHANGED <<redis, cfg, req, gw, events>>

\* A direct caller: persistence.storeUpdate(docName, update).
CallStoreUpdate(t, update) ==
    /\ task[t].pc \in {"idle", "done"}
    /\ task[t].calls < cfg.calls
    /\ task' = [task EXCEPT ![t] =
                  [@ EXCEPT !.pc = "su_rpush", !.op = "storeUpdate",
                            !.cont = "direct", !.update = update, !.doc = {},
                            !.ret = Missing, !.threw = FALSE, !.calls = @ + 1,
                            !.lenAfter = 0, !.base = {}]]
    /\ obs' = [Remember(t) EXCEPT !.fail = <<>>]
    /\ UNCHANGED <<redis, cfg, req, gw, events>>

\* getState, line 51: redis.getBuffer(snapshotKey) and the applyUpdate after it.
GetSnapshot(t) ==
    /\ task[t].pc = "g_get"
    /\ task' = [task EXCEPT ![t] =
                  [@ EXCEPT !.pc = "g_lrange",
                            !.doc = LoadSnapshot(redis.snapshot)]]
    /\ redis' = AfterRead(redis)
    /\ UNCHANGED <<cfg, req, gw, obs, events>>

\* A getState that returns the encoding of the merged document, empty or not.
StateOfBlob(doc) == Present(EncodeStateAsUpdate(doc))

\* What getState returns for the merged document: null when it is empty.
StateOf(doc) == IF doc = {} THEN Missing ELSE Present(EncodeStateAsUpdate(doc))

\* Y.applyUpdate(doc, update) decodes the update: the bytes are an update
\* when the count they begin with is the number of items that follow;
\* otherwise the decoder runs off the end and applyUpdate throws.
Mergeable(update) == Len(update) >= 1 /\ update[1] = Len(update) - 1

AllMergeable(updates) == \A i \in DOMAIN updates : Mergeable(updates[i])

\* getState, lines 57-73: redis.lrangeBuffer(updatesKey, 0, -1), the merge, and
\* the return; an entry that applyUpdate cannot decode makes the call throw.
GetUpdates(t) ==
    /\ task[t].pc = "g_lrange"
    /\ IF AllMergeable(redis.updates)
       THEN LET doc == ApplyAll(task[t].doc, redis.updates)
            IN Resume(t, [task[t] EXCEPT !.doc = doc], TRUE, StateOf(doc))
       ELSE Resume(t, [task[t] EXCEPT !.doc = {}], FALSE, Missing)
    /\ redis' = AfterRead(redis)
    /\ UNCHANGED <<cfg, gw, obs, events>>

\* A threshold test that never compacts.
ReachedThresholdNever(count) == FALSE

\* A threshold test that compacts one update late.
ReachedThresholdStrict(count) == count > cfg.threshold

\* storeUpdate, line 83: count >= compactionThreshold
ReachedThreshold(count) == count >= cfg.threshold

\* A storeUpdate that looks at the length of the log under every threshold.
CompactionEnabledAlways == TRUE

\* storeUpdate, line 81: compactionThreshold > 0
CompactionEnabled == cfg.threshold > 0

\* storeUpdate, line 78: redis.rpush(updatesKey, update); line 81 decides whether
\* the length is looked at.
RPush(t) ==
    /\ task[t].pc = "su_rpush"
    /\ redis' = [redis EXCEPT !.updates = Append(@, task[t].update)]
    /\ obs' = [Wrote(obs) EXCEPT
                 !.appended = @ \cup UpdateItems(task[t].update),
                 !.stored = IF cfg.returns THEN @ \cup {task[t].update} ELSE @,
                 !.result = IF task[t].update \in obs.stored THEN @ ELSE <<>>,
                 !.again = task[t].update \in obs.stored /\ obs.result # <<>>]
    /\ LET tk == [task[t] EXCEPT !.lenAfter = Len(redis.updates) + 1]
       IN IF CompactionEnabled
          THEN /\ task' = [task EXCEPT ![t] = [tk EXCEPT !.pc = "su_llen"]]
               /\ req' = req
          ELSE Resume(t, tk, TRUE, Missing)
    /\ UNCHANGED <<cfg, gw, events>>

\* storeUpdate, lines 82-86: redis.llen(updatesKey), then compact or return.
LLen(t) ==
    /\ task[t].pc = "su_llen"
    /\ LET tk == [task[t] EXCEPT !.count = Len(redis.updates)]
       IN IF ReachedThreshold(tk.count)
          THEN /\ task' = [task EXCEPT ![t] = [tk EXCEPT !.pc = "c_get", !.doc = {}]]
               /\ req' = req
          ELSE Resume(t, tk, TRUE, Missing)
    /\ UNCHANGED <<redis, cfg, gw, obs, events>>

\* compact, lines 96-99: the snapshot is read and applied.
CompactGetSnapshot(t) ==
    /\ task[t].pc = "c_get"
    /\ task' = [task EXCEPT ![t] =
                  [@ EXCEPT !.pc = "c_lrange",
                            !.doc = LoadSnapshot(redis.snapshot)]]
    /\ UNCHANGED <<redis, cfg, req, gw, obs, events>>

\* compact, lines 102-105: the whole log is read and applied; an entry that
\* applyUpdate cannot decode makes compact, and storeUpdate with it, throw.
CompactGetUpdates(t) ==
    /\ task[t].pc = "c_lrange"
    /\ IF AllMergeable(redis.updates)
       THEN /\ task' = [task EXCEPT ![t] =
                          [@ EXCEPT !.pc = "c_exec",
                                    !.doc = ApplyAll(@, redis.updates)]]
            /\ req' = req
       ELSE Resume(t, [task[t] EXCEPT !.doc = {}], FALSE, Missing)
    /\ UNCHANGED <<redis, cfg, gw, obs, events>>

\* A compaction that leaves the log as it is.
ClearedLogKept(updates) == updates

\* compact, line 111: pipeline.del(updatesKey)
ClearedLog(updates) == <<>>

\* compact, lines 108-112: SET snapshot and DEL updates, sent as one pipeline;
\* here the server runs the two commands back to back.
CompactExec(t) ==
    /\ task[t].pc = "c_exec"
    /\ redis' = [redis EXCEPT
                   !.snapshot = Present(EncodeStateAsUpdate(task[t].doc)),
                   !.updates = ClearedLog(@)]
    /\ Resume(t, task[t], TRUE, Missing)
    /\ obs' = Wrote(obs)
    /\ UNCHANGED <<cfg, gw, events>>

\* compact, line 110: a pipeline is no transaction; the server may serve other
\* clients between its commands.  SET snapshot alone.
CompactSet(t) ==
    /\ task[t].pc = "c_exec"
    /\ redis' = [redis EXCEPT
                   !.snapshot = Present(EncodeStateAsUpdate(task[t].doc))]
    /\ task' = [task EXCEPT ![t] = [@ EXCEPT !.pc = "c_del"]]
    /\ obs' = Wrote(obs)
    /\ UNCHANGED <<cfg, req, gw, events>>

\* compact, line 111: DEL updates, after the SET.
CompactDel(t) ==
    /\ task[t].pc = "c_del"
    /\ redis' = [redis EXCEPT !.updates = ClearedLog(@)]
    /\ Resume(t, task[t], TRUE, Missing)
    /\ obs' = Wrote(obs)
    /\ UNCHANGED <<cfg, gw, events>>

Persist(t) ==
    \/ GetSnapshot(t)
    \/ GetUpdates(t)
    \/ RPush(t)
    \/ LLen(t)
    \/ CompactGetSnapshot(t)
    \/ CompactGetUpdates(t)
    \/ CompactExec(t)
    \/ CompactSet(t)
    \/ CompactDel(t)

\* ------------------------------------------- persistence provider, directly

\* One caller, one call at a time, any compactionThreshold.
InitSeq ==
    /\ InitCommon
    /\ cfg \in [threshold : 0..MaxThreshold, persistence : {TRUE},
                awareness : {TRUE}, calls : {MaxSeqCalls}, events : {0},
                relays : {FALSE}, batches : {FALSE},
                ttl : {MaxTtl}, returns : {FALSE}, runs : {FALSE},
                retry : {FALSE}, resync : {FALSE}, gap : {FALSE}]

NextSeq ==
    \/ CallGetState(1)
    \/ \E u \in UpdateBlobs : CallStoreUpdate(1, u)
    \/ Persist(1)

SpecSeq == InitSeq /\ [][NextSeq]_vars

\* One caller that keeps what getState returned, any compactionThreshold.
InitAgain ==
    /\ InitCommon
    /\ cfg \in [threshold : 0..MaxThreshold, persistence : {TRUE},
                awareness : {TRUE}, calls : {MaxAgainCalls}, events : {0},
                relays : {FALSE}, batches : {FALSE}, ttl : {MaxTtl},
                returns : {TRUE}, runs : {FALSE},
                retry : {FALSE}, resync : {FALSE}, gap : {FALSE}]

SpecAgain == InitAgain /\ [][NextSeq]_vars

\* A Redis command of a direct getState fails: the call rejects (the finally
\* of lines 71-73 destroys the document, nothing is kept).
Reject(t) ==
    /\ task[t].op = "getState"
    /\ task[t].pc \in {"g_get", "g_lrange"}
    /\ Resume(t, [task[t] EXCEPT !.doc = {}], FALSE, Missing)
    /\ UNCHANGED <<redis, cfg, gw, obs, events>>

\* Two callers that read and retry, one of them also writes; the reads of the
\* store can fail.
InitRetry ==
    /\ InitCommon
    /\ cfg \in [threshold : 0..HandlerThreshold, persistence : {TRUE},
                awareness : {TRUE}, calls : {MaxRetryCalls}, events : {0},
                relays : {FALSE}, batches : {FALSE}, ttl : {MaxTtl},
                returns : {FALSE}, runs : {FALSE}, retry : {TRUE}, resync : {FALSE}, gap : {FALSE}]

NextRetry ==
    \/ \E t \in Tasks : CallGetState(t) \/ Persist(t) \/ Reject(t)
    \/ \E i \in Items : CallStoreUpdate(2, EncodeStateAsUpdate({i}))

SpecRetry == InitRetry /\ [][NextRetry]_vars

\* Several callers at once on one document.
InitStore ==
    /\ InitCommon
    /\ cfg \in [threshold : 1..HandlerThreshold, persistence : {TRUE},
                awareness : {TRUE}, calls : {MaxCalls}, events : {0},
                relays : {FALSE}, batches : {FALSE},
                ttl : {MaxTtl}, returns : {FALSE}, runs : {FALSE},
                retry : {FALSE}, resync : {FALSE}, gap : {FALSE}]

NextStore ==
    \E t \in Tasks :
        \/ CallGetState(t)
        \/ \E u \in UpdateBlobs : CallStoreUpdate(t, u)
        \/ Persist(t)

SpecStore == InitStore /\ [][NextStore]_vars

\* Two writers at once on one document, each appending its own update.
MaxLogCalls == 2

InitLog ==
    /\ InitCommon
    /\ cfg \in [threshold : 1..HandlerThreshold, persistence : {TRUE},
                awareness : {TRUE}, calls : {MaxLogCalls}, events : {0},
                relays : {FALSE}, batches : {FALSE},
                ttl : {MaxTtl}, returns : {FALSE}, runs : {FALSE},
                retry : {FALSE}, resync : {FALSE}, gap : {FALSE}]

NextLog ==
    \E t \in Tasks :
        \/ CallStoreUpdate(t, EncodeStateAsUpdate({t}))
        \/ RPush(t)
        \/ LLen(t)
        \/ CompactGetSnapshot(t)
        \/ CompactGetUpdates(t)
        \/ CompactExec(t)
        \/ CompactSet(t)
        \/ CompactDel(t)

SpecLog == InitLog /\ [][NextLog]_vars

\* A command of storeUpdate after the append fails: RPUSH is done, and LLEN,
\* or GET or LRANGE of compact, rejects; the call throws (lines 82-84, 96,
\* 102) and the store is as it was.
RejectStore(t) ==
    /\ task[t].op = "storeUpdate"
    /\ task[t].pc \in {"su_llen", "c_get", "c_lrange"}
    /\ obs' = [obs EXCEPT !.fail = <<[store |-> redis, update |-> task[t].update,
                                      at |-> task[t].pc]>>]
    /\ Resume(t, [task[t] EXCEPT !.doc = {}], FALSE, Missing)
    /\ UNCHANGED <<redis, cfg, gw, events>>

\* What of a failing pipeline the server has run: nothing, the SET alone
\* (the connection is lost after it), both commands (the replies are lost),
\* or the DEL alone (the SET is answered with an error).
PipelineOutcomes == {"none", "set", "both", "del"}

\* Line 112: await pipeline.exec() rejects when the connection fails and
\* resolves with the per-command errors, which are not looked at, when a
\* command is answered with an error.
ExecResolves(applied) == applied = "del"

\* compact, lines 108-112, with a failure in the pipeline.
ExecFails(t, applied) ==
    /\ task[t].op = "storeUpdate"
    /\ task[t].pc = "c_exec"
    /\ redis' = [redis EXCEPT
                   !.snapshot = IF applied \in {"set", "both"}
                                THEN Present(EncodeStateAsUpdate(task[t].doc))
                                ELSE @,
                   !.updates = IF applied \in {"both", "del"}
                               THEN ClearedLog(@) ELSE @]
    /\ obs' = [obs EXCEPT !.fail = <<[store |-> redis, update |-> task[t].update,
                                      at |-> applied]>>]
    /\ Resume(t, [task[t] EXCEPT !.doc = {}], ExecResolves(applied), Missing)
    /\ UNCHANGED <<cfg, gw, events>>

\* One caller stores updates and reads the state, one call at a time; any
\* command of storeUpdate after the append can fail.
InitFail ==
    /\ InitCommon
    /\ cfg \in [threshold : 1..HandlerThreshold, persistence : {TRUE},
                awareness : {TRUE}, calls : {MaxFailCalls}, events : {0},
                relays : {FALSE}, batches : {FALSE},
                ttl : {MaxTtl}, returns : {FALSE}, runs : {FALSE},
                retry : {FALSE}, resync : {FALSE}, gap : {FALSE}]

NextFail ==
    \/ \E i \in Items : CallStoreUpdate(1, EncodeStateAsUpdate({i}))
    \/ CallGetState(1)
    \/ GetSnapshot(1)
    \/ GetUpdates(1)
    \/ RPush(1)
    \/ LLen(1)
    \/ CompactGetSnapshot(1)
    \/ CompactGetUpdates(1)
    \/ CompactExec(1)
    \/ RejectStore(1)
    \/ \E applied \in PipelineOutcomes : ExecFails(1, applied)

SpecFail == InitFail /\ [][NextFail]_vars

\* ------------------------------------------------------- client frames

\* y-protocols encodeAwarenessUpdate, as a client writes it: the count, then
\* (clientId, clock, JSON state) per entry.
RECURSIVE EncodeEntries(_)
EncodeEntries(entries) ==
    IF entries = <<>> THEN <<>>
    ELSE WriteVarUint(Head(entries).clientId) \o WriteVarUint(Head(entries).clock)
           \o WriteVarString(Head(entries).state) \o EncodeEntries(Tail(entries))

EncodeAwarenessUpdate(entries) == WriteVarUint(Len(entries)) \o EncodeEntries(entries)

SyncFrame(syncType, payload) ==
    WriteVarUint(messageSync) \o WriteVarUint(syncType) \o WriteVarUint8Array(payload)

AwarenessEntries ==
    [clientId : ClientIds, clock : Clocks, state : {StrNull, StrEmptyObject}]

\* Awareness payloads: every single entry, and the two-client tables at clock 1
\* (the smaller id first).
AwarenessUpdates ==
    {EncodeAwarenessUpdate(<<e>>) : e \in AwarenessEntries}
    \cup {EncodeAwarenessUpdate(<<p[1], p[2]>>) :
            p \in {q \in AwarenessEntries \X AwarenessEntries :
                     /\ q[1].clock = 1
                     /\ q[2].clock = 1
                     /\ q[1].clientId < q[2].clientId}}

\* Update payloads of sync frames: one item each, and the zero-length payload.
FramePayloads == {EncodeStateAsUpdate({i}) : i \in Items} \cup {<<>>}

\* Frames that do not decode: empty, no sub-type, payload shorter than its
\* length prefix (sync and awareness), and an awareness payload cut short.
MalformedFrames ==
    {<<>>, <<messageSync>>, <<messageSync, messageYjsUpdate, 3, 1>>,
     <<messageAwareness, 4, 1>>, encodeAwarenessMessage(<<1, 1>>)}

\* Frames of a type or sub-type the handler has no branch for.
UnknownFrames == {<<messageAuth, 0, 0>>, <<9>>, <<messageSync, 7, 0>>}

ClientFrames ==
    {encodeSyncStep1(sv) : sv \in {emptyStateVector, <<1, 1, 1>>}}
    \cup {SyncFrame(st, u) : st \in {messageYjsSyncStep2, messageYjsUpdate},
                             u \in FramePayloads}
    \cup {encodeAwarenessMessage(a) : a \in AwarenessUpdates}
    \cup {<<messageQueryAwareness>>}
    \cup MalformedFrames
    \cup UnknownFrames

\* ------------------------------------------------------- session handler

\* All orders in which redis.keys can list a set of keys.
Orders(S) ==
    {ks \in [1..Cardinality(S) -> S] : \A i, j \in 1..Cardinality(S) :
                                          i # j => ks[i] # ks[j]}

Binary(frame) == [type |-> "BINARY", content |-> frame]

\* wsContext.getOutgoingEvents(): OPEN when accepted, the events sent, CLOSE
\* when closed.
OutgoingEvents(r) ==
    (IF r.accepted THEN <<[type |-> "OPEN", content |-> <<>>]>> ELSE <<>>)
      \o r.out
      \o (IF r.closed THEN <<[type |-> "CLOSE", content |-> <<>>]>> ELSE <<>>)

Running(t) == task[t].pc \notin {"idle", "done"}

\* What a request is given: the state of the two stores when it starts, the
\* metadata the gateway supplies, whether it opens the connection, its events
\* as they are received, and the order in which KEYS lists the presence keys.
RunStarted(c) ==
    IF cfg.runs
    THEN [obs EXCEPT !.run = <<[store |-> redis, meta |-> gw.meta[c],
                                opening |-> (gw.state[c] = "new"),
                                events |-> <<>>, keys |-> <<>>, fx |-> <<>>]>>]
    ELSE obs

\* An event is received; the effects of the event before it are kept.
RunEvent(t, event) ==
    IF obs.run = <<>> THEN obs
    ELSE [obs EXCEPT !.run = <<[obs.run[1] EXCEPT
                                  !.events = Append(@, event),
                                  !.fx = @ \o req[t].fx]>>]

RunKeys(ks) ==
    IF obs.run = <<>> THEN obs
    ELSE [obs EXCEPT !.run = <<[obs.run[1] EXCEPT !.keys = ks]>>]

\* What the request served by t was given.
RunGiven(t) ==
    [store |-> obs.run[1].store, meta |-> obs.run[1].meta,
     opening |-> obs.run[1].opening, events |-> obs.run[1].events,
     keys |-> obs.run[1].keys]

\* What a metadata-caching handler process would hand to a request: the
\* metadata of the response it sent last.
RequestMetaKept(c) == IF obs.ref # <<>> THEN obs.kept ELSE gw.meta[c]

\* Line 229: wsContext.meta, from the Meta-* headers of the request.
RequestMeta(c) == gw.meta[c]

\* The gateway sends the handler one request, with the connection's metadata:
\* the connection's first (OPEN, then any events) or a later one (one event
\* or more).  The events of the request are drawn as the loop receives them.
\* Connection 2 is opened after connection 1 (they are alike).
StartRequest(t, c) ==
    /\ ~Running(t)
    /\ gw.state[c] \in {"new", "active"}
    /\ \A t2 \in Tasks : Running(t2) => req[t2].conn # c
    /\ c = 2 => gw.state[1] # "new"
    /\ gw.state[c] = "active" => events < cfg.events
    /\ task' = [task EXCEPT ![t] =
                  [IdleTask EXCEPT !.pc = IF gw.state[c] = "new" THEN "h_open"
                                          ELSE "h_recv",
                                   !.op = "request"]]
    /\ req' = [req EXCEPT ![t] =
                 [IdleReq EXCEPT !.conn = c, !.opening = (gw.state[c] = "new"),
                                 !.meta = RequestMeta(c),
                                 !.got = IF gw.state[c] = "new" THEN "open"
                                         ELSE "none"]]
    /\ obs' = RunStarted(c)
    /\ UNCHANGED <<redis, cfg, gw, events>>

\* Lines 239-262: accept, subscribe, send step1 with the empty state vector,
\* then ask the persistence provider for the state.
Open(t) ==
    /\ task[t].pc = "h_open"
    /\ LET step1 == encodeSyncStep1(emptyStateVector)
       IN req' = [req EXCEPT ![t] =
                    [@ EXCEPT !.accepted = TRUE,
                              !.out = <<[type |-> "SUBSCRIBE", content |-> <<>>],
                                        Binary(step1)>>,
                              !.fx = Fx(t, "send", TRUE, 0, step1)]]
    /\ task' = [task EXCEPT ![t] =
                  IF cfg.persistence
                  THEN [@ EXCEPT !.pc = "g_get", !.cont = "open", !.doc = {}]
                  ELSE [@ EXCEPT !.pc = AfterOpenState]]
    /\ UNCHANGED <<redis, cfg, gw, obs, events>>

\* The clients whose last set is less than the time-to-live ago and was not
\* followed by a remove.
Alive == {c \in ClientIds : obs.last[c] # Missing /\ obs.age[c] < cfg.ttl}

\* getAll, lines 154-156: redis.keys(pattern); no key, no values.  (keys is
\* the call's local; a direct caller gets the result in ret.)
GetAllKeys(t, ks) ==
    /\ task[t].pc = "a_keys"
    /\ ks \in Orders({c \in ClientIds : redis.awareness[c] # Missing})
    /\ task' = [task EXCEPT ![t] =
                  [@ EXCEPT !.pc = IF ks # <<>> THEN "a_mget"
                                   ELSE IF task[t].op = "getAll" THEN "done"
                                   ELSE "h_recv",
                            !.base = IF task[t].op = "getAll" THEN Alive ELSE @]]
    /\ req' = [req EXCEPT ![t] = [@ EXCEPT !.keys = ks]]
    /\ obs' = RunKeys(ks)
    /\ UNCHANGED <<redis, cfg, gw, events>>

RECURSIVE SendStored(_, _)
\* Lines 271-277: each stored state is parsed for the log line and sent in an
\* awareness frame; a state that does not parse throws and ends the loop.
SendStored(r, states) ==
    IF states = <<>> THEN r
    ELSE IF ~parseAwarenessUpdate(Head(states)).ok THEN r
    ELSE LET frame == encodeAwarenessMessage(Head(states))
         IN SendStored([r EXCEPT
                          !.out = Append(@, Binary(frame)),
                          !.fx = Append(@, Effect("send", TRUE, 0, frame))],
                       Tail(states))

RECURSIVE ValuesOf(_)
\* getAll, lines 159-163: mgetBuffer(keys) without the keys that are gone.
ValuesOf(ks) ==
    IF ks = <<>> THEN <<>>
    ELSE (IF redis.awareness[Head(ks)] = Missing THEN <<>>
          ELSE <<redis.awareness[Head(ks)][1]>>) \o ValuesOf(Tail(ks))

GetAllValues(t) ==
    /\ task[t].pc = "a_mget"
    /\ IF task[t].op = "getAll"
       THEN /\ req' = [req EXCEPT ![t] = [@ EXCEPT !.keys = <<>>]]
            /\ task' = [task EXCEPT ![t] =
                          [@ EXCEPT !.pc = "done", !.ret = ValuesOf(req[t].keys),
                                    !.base = Alive]]
       ELSE /\ req' = [req EXCEPT ![t] =
                         SendStored([@ EXCEPT !.keys = <<>>], ValuesOf(req[t].keys))]
            /\ task' = [task EXCEPT ![t] = [@ EXCEPT !.pc = "h_recv"]]
    /\ UNCHANGED <<redis, cfg, gw, obs, events>>

\* How the frame a request handled last ended: "error" when it was dropped
\* (decode error, no branch for it) or a store call failed, "done" otherwise.
Outcome(r) ==
    IF ~cfg.batches \/ r.got # "frame" THEN <<>>
    ELSE IF r.fx = <<>> \/ \E i \in DOMAIN r.fx : ~r.fx[i].ok THEN <<"error">>
    ELSE <<"done">>

\* meta["client-id"] and meta["client-clock"] as the close branch reads them
\* (lines 294-301): both there, both numbers.
MetaBound(meta) ==
    /\ meta.id # <<>>
    /\ meta.clock # <<>>
    /\ parseInt(meta.id).ok
    /\ parseInt(meta.clock).ok

\* A loop that goes on receiving after the close event.
AfterCloseContinue == "h_recv"

\* Lines 328-329: wsContext.close(), then break: the loop is left.
AfterClose == "h_resp"

\* Lines 288-330: recvRaw() returned null, the connection was closed; `more`
\* events follow the close event in the request.
RecvClose(t, more) ==
    /\ task[t].pc = "h_recv"
    /\ events + 1 + more <= cfg.events
    /\ events' = events + 1 + more
    /\ LET r == [req[t] EXCEPT !.left = more, !.got = "close", !.msg = <<>>,
                               !.fx = <<>>, !.batch = @ \o Outcome(req[t])]
       IN IF MetaBound(r.meta)
          THEN /\ req' = [req EXCEPT ![t] = r]
               /\ task' = [task EXCEPT ![t] =
                             [@ EXCEPT !.pc = IF cfg.awareness THEN "x_remove"
                                              ELSE "x_publish"]]
          ELSE /\ req' = [req EXCEPT ![t] = [r EXCEPT !.closed = TRUE]]
               /\ task' = [task EXCEPT ![t] = [@ EXCEPT !.pc = AfterClose]]
    /\ obs' = RunEvent(t, [type |-> "CLOSE", content |-> <<>>])
    /\ UNCHANGED <<redis, cfg, gw>>

\* The presence key of clientId was set by a request of connection conn, or
\* deleted (conn -1).
Written(o, clientId, conn) ==
    IF cfg.runs THEN [o EXCEPT !.writer[clientId] = conn] ELSE o

\* Line 309: awarenessStore.remove(docName, clientId), that is redis.del(key).
CloseRemove(t) ==
    /\ task[t].pc = "x_remove"
    /\ LET clientId == parseInt(req[t].meta.id).val
       IN /\ redis' = Del(redis, clientId)
          /\ req' = [req EXCEPT ![t] =
                       [@ EXCEPT !.fx = Fx(t, "remove", TRUE, clientId, <<>>)]]
          /\ obs' = Written(obs, clientId, -1)
    /\ task' = [task EXCEPT ![t] = [@ EXCEPT !.pc = "x_publish"]]
    /\ UNCHANGED <<cfg, gw, events>>

\* Lines 316-329: the removal frame is published, then wsContext.close().
ClosePublish(t) ==
    /\ task[t].pc = "x_publish"
    /\ LET clientId == parseInt(req[t].meta.id).val
           clock == parseInt(req[t].meta.clock).val
           disconnectMsg == encodeDisconnectAwareness(clientId, clock)
       IN req' = [req EXCEPT ![t] =
                    [@ EXCEPT !.fx = Fx(t, "publish", TRUE, clientId, disconnectMsg),
                              !.closed = TRUE]]
    /\ task' = [task EXCEPT ![t] = [@ EXCEPT !.pc = AfterClose]]
    /\ UNCHANGED <<redis, cfg, gw, obs, events>>

\* A catch that swallows the broadcast with the failed store operation.
AfterAwarenessStoreDrop == "h_recv"

\* Lines 410-416: after the store loop, and after the catch of a failure in
\* it, the frame is published.
AfterAwarenessStore == "h_publish"

\* A guard that never persists.
ShouldPersistNever(update) == FALSE

\* Line 367: persistence && update.length > 0
ShouldPersist(update) == cfg.persistence /\ Len(update) > 0

\* A handler with no branch for query-awareness.
AfterQueryAwarenessIgnored == "h_recv"

\* Lines 417-419: a query-awareness frame is published.
AfterQueryAwareness == "h_publish"

\* A catch that gives the request up.
NextMessageBreak == "h_resp"

\* Lines 421-424: after the catch of a decode error, and after a message no
\* branch takes, the loop goes on with the next message.
NextMessage == "h_recv"

\* What the try block of lines 337-420 does with a message before its first
\* await: the next position, and for a sync payload the update to store.
\* "h_recv" is the message dropped (decode error or no branch for it).
\* A handler that broadcasts the frames it has no branch for.
AfterNoBranchEcho == "h_publish"

\* Lines 341-420: the if-chains over the outer type and over the sync
\* sub-type have no else; a frame no branch takes is done with.
AfterNoBranch == NextMessage

Dispatch(message) ==
    LET messageType == ReadVarUint(message, 0)
        drop == [pc |-> NextMessage, update |-> <<>>, clients |-> <<>>]
    IN IF ~messageType.ok THEN drop
       ELSE IF messageType.val = messageSync
       THEN LET syncType == ReadVarUint(message, messageType.pos)
            IN IF ~syncType.ok THEN drop
               ELSE IF syncType.val = messageYjsSyncStep1
               THEN IF ~ReadVarUint8Array(message, syncType.pos).ok THEN drop
                    ELSE IF cfg.persistence
                    THEN [drop EXCEPT !.pc = "g_get"]
                    ELSE drop
               ELSE IF syncType.val \in {messageYjsSyncStep2, messageYjsUpdate}
               THEN LET update == ReadVarUint8Array(message, syncType.pos)
                    IN IF ~update.ok THEN drop
                       ELSE IF ShouldPersist(update.val)
                       THEN [drop EXCEPT !.pc = "su_rpush", !.update = update.val]
                       ELSE [drop EXCEPT !.pc = "h_publish"]
               ELSE [drop EXCEPT !.pc = AfterNoBranch]
       ELSE IF messageType.val = messageAwareness
       THEN LET awarenessUpdate == ReadVarUint8Array(message, messageType.pos)
            IN IF ~awarenessUpdate.ok THEN drop
               ELSE IF ~cfg.awareness THEN [drop EXCEPT !.pc = AfterAwarenessStore]
               ELSE LET clients == parseAwarenessUpdate(awarenessUpdate.val)
                    IN IF ~clients.ok \/ clients.val = <<>>
                       THEN [drop EXCEPT !.pc = AfterAwarenessStore]
                       ELSE [drop EXCEPT !.pc = "aw_loop", !.clients = clients.val]
       ELSE IF messageType.val = messageQueryAwareness
       THEN [drop EXCEPT !.pc = AfterQueryAwareness]
       ELSE [drop EXCEPT !.pc = AfterNoBranch]

\* Lines 286, 332-420: recvRaw() returned a message; it is decoded and
\* dispatched up to its first await.
RecvFrame(t, message) ==
    /\ task[t].pc = "h_recv"
    /\ events < cfg.events
    /\ events' = events + 1
    /\ LET d == Dispatch(message)
       IN /\ task' = [task EXCEPT ![t] =
                        [@ EXCEPT !.pc = d.pc, !.update = d.update, !.doc = {},
                                  !.cont = IF d.pc = "g_get" THEN "step1"
                                           ELSE "store"]]
          /\ req' = [req EXCEPT ![t] =
                       [@ EXCEPT !.got = "frame", !.msg = message,
                                 !.fx = <<>>, !.clients = d.clients,
                                 !.batch = @ \o Outcome(req[t])]]
    /\ obs' = RunEvent(t, Binary(message))
    /\ UNCHANGED <<redis, cfg, gw>>

\* A binding that lets every entry overwrite client-id.
BindLast(meta, clientId, clock) ==
    [id |-> String(clientId), clock |-> String(clock)]

\* Lines 401-407: client-id is bound once; client-clock follows the bound id.
Bind(meta, clientId, clock) ==
    LET m == IF meta.id = <<>> THEN [meta EXCEPT !.id = String(clientId)]
             ELSE meta
    IN IF m.id = String(clientId) THEN [m EXCEPT !.clock = String(clock)] ELSE m

\* A loop that stores every entry, the null state included.
EntryRemovesNever(e) == FALSE

\* Line 388: if (isNull)
EntryRemoves(e) == e.isNull

\* Lines 387-409: one entry of the awareness update: remove on a null state,
\* else store the whole update under the entry's client id and bind.
AwarenessEntry(t) ==
    /\ task[t].pc = "aw_loop"
    /\ LET e == Head(req[t].clients)
           rest == Tail(req[t].clients)
           awarenessUpdate == ReadVarUint8Array(req[t].msg, 1).val
       IN /\ redis' = IF EntryRemoves(e) THEN Del(redis, e.clientId)
                      ELSE SetEx(redis, e.clientId, awarenessUpdate)
          /\ req' = [req EXCEPT ![t] =
                       [@ EXCEPT
                          !.clients = rest,
                          !.meta = IF EntryRemoves(e) THEN @
                                   ELSE Bind(@, e.clientId, e.clock),
                          !.fx = Fx(t, IF EntryRemoves(e) THEN "remove" ELSE "set",
                                    TRUE, e.clientId,
                                    IF EntryRemoves(e) THEN <<>>
                                    ELSE awarenessUpdate)]]
          /\ task' = [task EXCEPT ![t] =
                        [@ EXCEPT !.pc = IF rest = <<>> THEN AfterAwarenessStore
                                         ELSE "aw_loop"]]
          /\ obs' = Written(obs, e.clientId,
                            IF EntryRemoves(e) THEN -1 ELSE req[t].conn)
    /\ UNCHANGED <<cfg, gw, events>>

\* The (clientId, clock) pairs of the entries of a frame that are no removals.
PresenceOf(message) ==
    LET payload == ReadVarUint8Array(message, 1)
        clients == IF payload.ok THEN parseAwarenessUpdate(payload.val)
                   ELSE [ok |-> FALSE, val |-> <<>>]
    IN IF Len(message) > 0 /\ message[1] = messageAwareness /\ clients.ok
       THEN {<<clients.val[i].clientId, clients.val[i].clock>> :
               i \in {j \in 1..Len(clients.val) : ~clients.val[j].isNull}}
       ELSE {}

\* The items of the update a sync frame (step2 or update) carries.
SyncItems(frame) ==
    IF /\ Len(frame) >= 2
       /\ frame[1] = messageSync
       /\ frame[2] \in {messageYjsSyncStep2, messageYjsUpdate}
       /\ ReadVarUint8Array(frame, 2).ok
    THEN UpdateItems(ReadVarUint8Array(frame, 2).val)
    ELSE {}

\* The gateway relays a frame published to the channel to the connections
\* that are subscribed when it arrives.
Broadcast(o, frame) ==
    IF cfg.gap
    THEN [o EXCEPT !.published = @ \cup SyncItems(frame),
                   !.delivered = [c \in Conns |->
                                    IF gw.state[c] = "active"
                                    THEN @[c] \cup SyncItems(frame) ELSE @[c]]]
    ELSE o

\* The gateway passes the frames of a response on to the connection.
Sent(o, t) ==
    IF cfg.gap
    THEN [o EXCEPT !.delivered[req[t].conn] =
            @ \cup UNION {SyncItems(req[t].out[i].content) :
                            i \in DOMAIN req[t].out}]
    ELSE o

\* Lines 376, 416, 419: publishToChannel(publisher, channel, message).
Publish(t) ==
    /\ task[t].pc = "h_publish"
    /\ req' = [req EXCEPT ![t] =
                 [@ EXCEPT !.fx = Fx(t, "publish", TRUE, 0, req[t].msg),
                           !.clients = <<>>]]
    /\ obs' = IF cfg.relays
              THEN [obs EXCEPT !.relayed[req[t].conn] =
                      [i \in ClientIds |->
                         LET ks == {p[2] : p \in {q \in PresenceOf(req[t].msg) :
                                                    q[1] = i}} \cup {@[i]}
                         IN CHOOSE k \in ks : \A k2 \in ks : k2 <= k]]
              ELSE Broadcast(obs, req[t].msg)
    /\ task' = [task EXCEPT ![t] = [@ EXCEPT !.pc = "h_recv", !.update = <<>>]]
    /\ UNCHANGED <<redis, cfg, gw, events>>

\* What the request served by t has produced: the events of the response,
\* the store calls, sends and broadcasts of all its events, the metadata,
\* and the state of the two stores.
RunResult(t) ==
    [sent |-> OutgoingEvents(req[t]), fx |-> obs.run[1].fx \o req[t].fx,
     meta |-> req[t].meta, store |-> redis]

\* The loop is over: left on close, or no event is left to receive.
AtResponse(t) ==
    \/ task[t].pc = "h_resp"
    \/ task[t].pc = "h_recv" /\ req[t].got # "none"

\* Lines 285, 426-433: the response carries the outgoing events and the
\* metadata; the gateway keeps the metadata and the connection's state.
Respond(t) ==
    /\ AtResponse(t)
    /\ gw' = [gw EXCEPT !.meta[req[t].conn] = req[t].meta,
                        !.state[req[t].conn] = IF req[t].closed THEN "closed"
                                               ELSE "active"]
    /\ task' = [task EXCEPT ![t] = IdleTask]
    /\ req' = [req EXCEPT ![t] = IdleReq]
    /\ obs' = IF obs.run = <<>> THEN Sent(obs, t)
              ELSE [obs EXCEPT
                      !.run = <<>>,
                      !.kept = req[t].meta,
                      !.ref = IF @ # <<>> THEN @
                              ELSE <<[given |-> RunGiven(t),
                                      result |-> RunResult(t)]>>]
    /\ UNCHANGED <<redis, cfg, events>>

RedisCalls ==
    {"g_get", "g_lrange", "su_rpush", "su_llen", "c_get", "c_lrange", "c_exec",
     "c_del"}

\* A Redis command fails and the awaited call rejects; control goes to the
\* catch block around it (lines 259, 278, 310, 356, 370, 410).
Throw(t) ==
    /\ task[t].op = "request"
    /\ obs' = IF cfg.resync /\ task[t].pc \in RedisCalls /\ task[t].cont = "store"
              THEN [obs EXCEPT !.unsaved = @ \cup UpdateItems(task[t].update)]
              ELSE obs
    /\ IF task[t].pc \in RedisCalls
       THEN /\ Resume(t, [task[t] EXCEPT !.doc = {}], FALSE, Missing)
            /\ redis' = redis
       ELSE /\ task[t].pc \in {"a_keys", "a_mget", "aw_loop", "x_remove"}
            /\ task' = [task EXCEPT ![t] =
                          [@ EXCEPT !.pc = IF task[t].pc = "aw_loop"
                                           THEN AfterAwarenessStore
                                           ELSE IF task[t].pc = "x_remove"
                                           THEN "x_publish" ELSE "h_recv"]]
            /\ req' = [req EXCEPT ![t] =
                         [@ EXCEPT
                            !.fx = Fx(t, CASE task[t].pc = "aw_loop" ->
                                              IF Head(req[t].clients).isNull
                                              THEN "remove" ELSE "set"
                                           [] task[t].pc = "x_remove" -> "remove"
                                           [] OTHER -> "getAll",
                                      FALSE, 0, <<>>),
                            !.clients = <<>>, !.keys = <<>>]]
            /\ redis' = redis
    /\ UNCHANGED <<cfg, gw, events>>

Handler(t) ==
    \/ \E c \in Conns : StartRequest(t, c)
    \/ Open(t)
    \/ \E ks \in Orders(ClientIds) \cup UNION {Orders({c}) : c \in ClientIds}
                   \cup {<<>>} : GetAllKeys(t, ks)
    \/ GetAllValues(t)
    \/ \E more \in {0, 1} : RecvClose(t, more)
    \/ \E f \in ClientFrames : RecvFrame(t, f)
    \/ CloseRemove(t)
    \/ ClosePublish(t)
    \/ AwarenessEntry(t)
    \/ Publish(t)
    \/ Respond(t)
    \/ Persist(t)
    \/ Throw(t)

\* The handler serving one request at a time, with and without the two
\* providers, the store failing at will.
Init ==
    /\ InitCommon
    /\ cfg \in [threshold : {HandlerThreshold}, persistence : BOOLEAN,
                awareness : BOOLEAN, calls : {0}, events : {MaxEvents},
                relays : {FALSE}, batches : {FALSE},
                ttl : {MaxTtl}, returns : {FALSE}, runs : {FALSE},
                retry : {FALSE}, resync : {FALSE}, gap : {FALSE}]

Next == Handler(1)

Spec == Init /\ [][Next]_vars

\* Two handler instances, one per connection, run concurrently with a
\* persistence provider; the store can fail while the first event is handled
\* and works from then on.  Connection 1 sends updates, connection 2 answers
\* the handshake with a step2 that carries its full state.
Step2Full == SyncFrame(messageYjsSyncStep2, EncodeStateAsUpdate({1}))

ResyncFrames ==
    {SyncFrame(messageYjsUpdate, EncodeStateAsUpdate({i})) : i \in Items}

InitResync ==
    /\ InitCommon
    /\ cfg \in [threshold : 1..HandlerThreshold, persistence : {TRUE},
                awareness : {FALSE}, calls : {0}, events : {MaxResyncEvents},
                relays : {FALSE}, batches : {FALSE}, ttl : {MaxTtl},
                returns : {FALSE}, runs : {FALSE}, retry : {FALSE},
                resync : {TRUE}, gap : {FALSE}]

\* The steps a handler takes by itself once a request has reached it.
Continue(t) ==
    \/ Open(t)
    \/ Persist(t)
    \/ Publish(t)
    \/ Respond(t)

NextResync ==
    \/ \E t \in Tasks : StartRequest(t, t) \/ Continue(t)
    \/ \E f \in ResyncFrames : RecvFrame(1, f)
    \/ RecvFrame(2, Step2Full)
    \/ \E t \in Tasks : events <= MaxFailedEvents /\ Throw(t)

\* An awaited call completes, and a request whose events are read is
\* answered.
SpecResync ==
    InitResync /\ [][NextResync]_vars
        /\ \A t \in Tasks : WF_vars(Continue(t))

\* Two handler instances, one per connection, run concurrently with a
\* persistence provider that never compacts and a store that works.
\* Connection 1 sends updates and connection 2 opens; the gateway subscribes
\* a connection when its open response arrives (gw.state becomes "active").
InitGap ==
    /\ InitCommon
    /\ cfg \in [threshold : {0}, persistence : {TRUE},
                awareness : {FALSE}, calls : {0}, events : {MaxGapEvents},
                relays : {FALSE}, batches : {FALSE}, ttl : {MaxTtl},
                returns : {FALSE}, runs : {FALSE}, retry : {FALSE},
                resync : {FALSE}, gap : {TRUE}]

NextGap ==
    \/ StartRequest(1, 1)
    \/ gw.state[2] = "new" /\ StartRequest(2, 2)
    \/ \E f \in ResyncFrames : RecvFrame(1, f)
    \/ \E t \in Tasks :
          \/ Open(t)
          \/ GetSnapshot(t)
          \/ GetUpdates(t)
          \/ RPush(t)
          \/ Publish(t)
          \/ Respond(t)

SpecGap == InitGap /\ [][NextGap]_vars

\* Two handler instances serve the requests of two connections, one request
\* at a time, with both providers and a store that works.
RunFrames ==
    {<<messageQueryAwareness>>, encodeSyncStep1(emptyStateVector),
     SyncFrame(messageYjsUpdate, EncodeStateAsUpdate({1})),
     encodeAwarenessMessage(EncodeAwarenessUpdate(
        <<[clientId |-> 1, clock |-> 1, state |-> StrEmptyObject]>>)),
     encodeAwarenessMessage(EncodeAwarenessUpdate(
        <<[clientId |-> 1, clock |-> 1, state |-> StrNull]>>))}

InitRuns ==
    /\ InitCommon
    /\ cfg \in [threshold : {HandlerThreshold}, persistence : {TRUE},
                awareness : {TRUE}, calls : {0}, events : {MaxRunEvents},
                relays : {FALSE}, batches : {FALSE}, ttl : {MaxTtl},
                returns : {FALSE}, runs : {TRUE},
                retry : {FALSE}, resync : {FALSE}, gap : {FALSE}]

NextRuns ==
    \E t \in Tasks :
       \/ \E c \in Conns :
             (\A t2 \in Tasks : ~Running(t2)) /\ StartRequest(t, c)
       \/ Open(t)
       \/ \E ks \in Orders({1}) \cup {<<>>} : GetAllKeys(t, ks)
       \/ GetAllValues(t)
       \/ RecvClose(t, 0)
       \/ \E f \in RunFrames : RecvFrame(t, f)
       \/ CloseRemove(t)
       \/ ClosePublish(t)
       \/ AwarenessEntry(t)
       \/ Publish(t)
       \/ Respond(t)
       \/ Persist(t)

SpecRuns == InitRuns /\ [][NextRuns]_vars

\* One connection and its presence traffic: awareness frames and the close
\* event, an awareness store that may fail, no persistence provider.  The
\* store is empty when the connection opens, so getAll finds no key.
PresenceFrames == {encodeAwarenessMessage(a) : a \in AwarenessUpdates}

InitPresence ==
    /\ InitCommon
    /\ cfg \in [threshold : {HandlerThreshold}, persistence : {FALSE},
                awareness : {TRUE}, calls : {0}, events : {MaxPresenceEvents},
                relays : {TRUE}, batches : {FALSE},
                ttl : {MaxTtl}, returns : {FALSE}, runs : {FALSE},
                retry : {FALSE}, resync : {FALSE}, gap : {FALSE}]

NextPresence ==
    \/ StartRequest(1, 1)
    \/ Open(1)
    \/ GetAllKeys(1, <<>>)
    \/ \E more \in {0, 1} : RecvClose(1, more)
    \/ \E f \in PresenceFrames : RecvFrame(1, f)
    \/ CloseRemove(1)
    \/ ClosePublish(1)
    \/ AwarenessEntry(1)
    \/ Publish(1)
    \/ Respond(1)
    \/ Throw(1)

SpecPresence == InitPresence /\ [][NextPresence]_vars

\* One connection whose frames fail: frames that do not decode, frames no
\* branch takes, and an update and a presence frame on a store that may fail.
BatchFrames ==
    MalformedFrames \cup UnknownFrames
    \cup {SyncFrame(messageYjsUpdate, EncodeStateAsUpdate({1})),
          encodeAwarenessMessage(EncodeAwarenessUpdate(
              <<[clientId |-> 1, clock |-> 0, state |-> StrEmptyObject]>>))}

InitBatch ==
    /\ InitCommon
    /\ cfg \in [threshold : {HandlerThreshold}, persistence : {TRUE},
                awareness : {TRUE}, calls : {0}, events : {MaxBatchEvents},
                relays : {FALSE}, batches : {TRUE},
                ttl : {MaxTtl}, returns : {FALSE}, runs : {FALSE},
                retry : {FALSE}, resync : {FALSE}, gap : {FALSE}]

NextBatch ==
    \/ StartRequest(1, 1)
    \/ Open(1)
    \/ GetAllKeys(1, <<>>)
    \/ \E more \in {0, 1} : RecvClose(1, more)
    \/ \E f \in BatchFrames : RecvFrame(1, f)
    \/ CloseRemove(1)
    \/ ClosePublish(1)
    \/ AwarenessEntry(1)
    \/ Publish(1)
    \/ Respond(1)
    \/ Persist(1)
    \/ Throw(1)

SpecBatch == InitBatch /\ [][NextBatch]_vars

\* Values a metadata field can arrive with: absent, no number ("x"), a
\* number ("1"), a number followed by something else ("1x").
MetaValues == {<<>>, <<120>>, String(1), String(1) \o <<120>>}

\* One connection, already open, whose metadata arrives with any of these
\* values, on a document where client 1 has a stored presence entry.
InitClose ==
    /\ redis = [snapshot |-> Missing, updates |-> <<>>,
                awareness |-> [c \in ClientIds |->
                    IF c = 1
                    THEN Present(EncodeAwarenessUpdate(
                           <<[clientId |-> 1, clock |-> 0, state |-> StrEmptyObject]>>))
                    ELSE Missing],
                expire |-> [c \in ClientIds |-> IF c = 1 THEN MaxTtl ELSE 0],
                space |-> {}]
    /\ task = [t \in Tasks |-> IdleTask]
    /\ req = [t \in Tasks |-> IdleReq]
    /\ gw \in [state : {[c \in Conns |-> IF c = 1 THEN "active" ELSE "new"]},
               meta : {[c \in Conns |-> IF c = 1 THEN m ELSE NoMeta] :
                         m \in [id : MetaValues, clock : MetaValues]}]
    /\ obs = [appended |-> {},
              relayed |-> [c \in Conns |-> [i \in ClientIds |-> -1]],
              last |-> [c \in ClientIds |-> Missing],
              age |-> [c \in ClientIds |-> 0],
              stored |-> {}, result |-> <<>>, again |-> FALSE,
              run |-> <<>>, ref |-> <<>>, kept |-> NoMeta,
              writes |-> 0, began |-> [t \in Tasks |-> 0], reads |-> <<>>,
              unsaved |-> {}, published |-> {},
              delivered |-> [c \in Conns |-> {}],
              writer |-> [c \in ClientIds |-> 0], fail |-> <<>>,
              written |-> {}]
    /\ events = 0
    /\ cfg \in [threshold : {HandlerThreshold}, persistence : {FALSE},
                awareness : {TRUE}, calls : {0}, events : {MaxEvents},
                relays : {FALSE}, batches : {FALSE},
                ttl : {MaxTtl}, returns : {FALSE}, runs : {FALSE},
                retry : {FALSE}, resync : {FALSE}, gap : {FALSE}]

NextClose ==
    \/ StartRequest(1, 1)
    \/ \E more \in {0, 1} : RecvClose(1, more)
    \/ \E f \in {<<messageQueryAwareness>>} \cup PresenceFrames : RecvFrame(1, f)
    \/ CloseRemove(1)
    \/ ClosePublish(1)
    \/ AwarenessEntry(1)
    \/ Publish(1)
    \/ Respond(1)
    \/ Throw(1)

SpecClose == InitClose /\ [][NextClose]_vars

\* One connection that sends presence tables: every single entry, the tables
\* of two clients, and the tables that name client 1 twice, with a store
\* that works.  The store is empty when the connection opens.
EntryFrames ==
    PresenceFrames
    \cup {encodeAwarenessMessage(EncodeAwarenessUpdate(<<p[1], p[2]>>)) :
            p \in {q \in AwarenessEntries \X AwarenessEntries :
                     /\ q[1].clientId = 1 /\ q[2].clientId = 1
                     /\ q[1].clock = 1 /\ q[2].clock = 1
                     /\ q[1].state # q[2].state}}

InitEntries ==
    /\ InitCommon
    /\ cfg \in [threshold : {HandlerThreshold}, persistence : {FALSE},
                awareness : {TRUE}, calls : {0}, events : {MaxEntryEvents},
                relays : {FALSE}, batches : {FALSE}, ttl : {MaxTtl},
                returns : {FALSE}, runs : {TRUE}, retry : {FALSE}, resync : {FALSE}, gap : {FALSE}]

NextEntries ==
    \/ StartRequest(1, 1)
    \/ Open(1)
    \/ GetAllKeys(1, <<>>)
    \/ \E f \in EntryFrames : RecvFrame(1, f)
    \/ AwarenessEntry(1)
    \/ Publish(1)
    \/ Respond(1)

SpecEntries == InitEntries /\ [][NextEntries]_vars

\* One handler instance with an awareness store that works serves two
\* connections, one request at a time.  Connection 1 sends presence of one
\* client or of two clients in one frame, removals, and closes; connection 2
\* opens.
ReplayFrames ==
    {encodeAwarenessMessage(EncodeAwarenessUpdate(es)) :
       es \in {<<[clientId |-> 1, clock |-> 1, state |-> StrEmptyObject],
                 [clientId |-> 200, clock |-> 1, state |-> StrEmptyObject]>>,
               <<[clientId |-> 200, clock |-> 1, state |-> StrEmptyObject],
                 [clientId |-> 1, clock |-> 1, state |-> StrEmptyObject]>>,
               <<[clientId |-> 1, clock |-> 1, state |-> StrEmptyObject]>>,
               <<[clientId |-> 1, clock |-> 1, state |-> StrNull]>>}}

InitReplay ==
    /\ InitCommon
    /\ cfg \in [threshold : {HandlerThreshold}, persistence : {FALSE},
                awareness : {TRUE}, calls : {0}, events : {MaxReplayEvents},
                relays : {FALSE}, batches : {FALSE}, ttl : {MaxTtl},
                returns : {FALSE}, runs : {TRUE}, retry : {FALSE},
                resync : {FALSE}, gap : {FALSE}]

NextReplay ==
    \/ \E c \in Conns : StartRequest(1, c)
    \/ Open(1)
    \/ \E ks \in Orders(ClientIds) \cup UNION {Orders({c}) : c \in ClientIds}
                   \cup {<<>>} : GetAllKeys(1, ks)
    \/ GetAllValues(1)
    \/ \E f \in ReplayFrames : req[1].conn = 1 /\ RecvFrame(1, f)
    \/ AwarenessEntry(1)
    \/ Publish(1)
    \/ req[1].conn = 1 /\ RecvClose(1, 0)
    \/ CloseRemove(1)
    \/ ClosePublish(1)
    \/ Respond(1)

SpecReplay == InitReplay /\ [][NextReplay]_vars

\* One connection sends sync frames, among them an update frame whose
\* payload is not an update (the count it begins with is above the number of
\* items that follow); the store works.
PoisonFrames ==
    {SyncFrame(messageYjsUpdate, <<2, 1>>),
     SyncFrame(messageYjsUpdate, EncodeStateAsUpdate({1})),
     encodeSyncStep1(emptyStateVector)}

InitPoison ==
    /\ InitCommon
    /\ cfg \in [threshold : 1..HandlerThreshold, persistence : {TRUE},
                awareness : {FALSE}, calls : {0}, events : {MaxPoisonEvents},
                relays : {FALSE}, batches : {FALSE}, ttl : {MaxTtl},
                returns : {FALSE}, runs : {FALSE}, retry : {FALSE},
                resync : {FALSE}, gap : {FALSE}]

NextPoison ==
    \/ \E c \in Conns : StartRequest(1, c)
    \/ Open(1)
    \/ \E f \in PoisonFrames : RecvFrame(1, f)
    \/ GetSnapshot(1) \/ GetUpdates(1)
    \/ RPush(1) \/ LLen(1)
    \/ CompactGetSnapshot(1) \/ CompactGetUpdates(1) \/ CompactExec(1)
    \/ Publish(1)
    \/ Respond(1)

SpecPoison == InitPoison /\ [][NextPoison]_vars

\* --------------------------------------------- awareness store, directly

\* The blobs the caller stores for a client: one entry, at each clock.
BlobsOf(clientId) ==
    {EncodeAwarenessUpdate(<<[clientId |-> clientId, clock |-> k,
                              state |-> StrEmptyObject]>>) : k \in Clocks}

\* A direct caller: awarenessStore.set(docName, clientId, update).
AwarenessSet(t, clientId, update) ==
    /\ task[t].pc \in {"idle", "done"}
    /\ task[t].calls < cfg.calls
    /\ redis' = SetEx(redis, clientId, update)
    /\ obs' = [obs EXCEPT !.last[clientId] = Present(update), !.age[clientId] = 0]
    /\ task' = [task EXCEPT ![t] =
                  [IdleTask EXCEPT !.pc = "done", !.op = "set",
                                   !.calls = task[t].calls + 1]]
    /\ UNCHANGED <<cfg, req, gw, events>>

\* A direct caller: awarenessStore.remove(docName, clientId).
AwarenessRemove(t, clientId) ==
    /\ task[t].pc \in {"idle", "done"}
    /\ task[t].calls < cfg.calls
    /\ redis' = Del(redis, clientId)
    /\ obs' = [obs EXCEPT !.last[clientId] = Missing, !.age[clientId] = 0]
    /\ task' = [task EXCEPT ![t] =
                  [IdleTask EXCEPT !.pc = "done", !.op = "remove",
                                   !.calls = task[t].calls + 1]]
    /\ UNCHANGED <<cfg, req, gw, events>>

\* A direct caller: awarenessStore.getAll(docName).
CallGetAll(t) ==
    /\ task[t].pc \in {"idle", "done"}
    /\ task[t].calls < cfg.calls
    /\ task' = [task EXCEPT ![t] =
                  [IdleTask EXCEPT !.pc = "a_keys", !.op = "getAll",
                                   !.calls = task[t].calls + 1]]
    /\ UNCHANGED <<redis, cfg, req, gw, obs, events>>

\* A second passes: every key has a second less to live, and a key with none
\* left is gone.
Tick ==
    /\ \E c \in ClientIds : redis.awareness[c] # Missing
    /\ redis' = [redis EXCEPT
                   !.awareness = [c \in ClientIds |->
                                    IF redis.expire[c] <= 1 THEN Missing ELSE @[c]],
                   !.expire = [c \in ClientIds |->
                                 IF @[c] > 0 THEN @[c] - 1 ELSE 0]]
    /\ obs' = [obs EXCEPT
                 !.age = [c \in ClientIds |->
                            IF obs.last[c] # Missing /\ @[c] < cfg.ttl
                            THEN @[c] + 1 ELSE @[c]]]
    /\ UNCHANGED <<cfg, task, req, gw, events>>

\* One caller of an Awareness Store with any time-to-live, and the clock.
InitTtl ==
    /\ InitCommon
    /\ cfg \in [threshold : {HandlerThreshold}, persistence : {FALSE},
                awareness : {TRUE}, calls : {MaxTtlCalls}, events : {0},
                relays : {FALSE}, batches : {FALSE}, ttl : 1..MaxTtl,
                returns : {FALSE}, runs : {FALSE},
                retry : {FALSE}, resync : {FALSE}, gap : {FALSE}]

NextTtl ==
    \/ \E c \in ClientIds : \E u \in BlobsOf(c) : AwarenessSet(1, c, u)
    \/ \E c \in ClientIds : AwarenessRemove(1, c)
    \/ CallGetAll(1)
    \/ \E ks \in Orders(ClientIds) \cup UNION {Orders({c}) : c \in ClientIds}
                   \cup {<<>>} : GetAllKeys(1, ks)
    \/ GetAllValues(1)
    \/ Tick

SpecTtl == InitTtl /\ [][NextTtl]_vars

\* ------------------------------------------ awareness store, by document

Slash == 47
Colon == 58
Star == 42
StrYjs == <<121, 106, 115>>
StrAwareness == <<97, 119, 97, 114, 101, 110, 101, 115, 115>>
StrDefault == <<100, 101, 102, 97, 117, 108, 116>>

\* createRedisAwareness, line 137: keyPrefix = "yjs"
keyPrefix == StrYjs

\* Line 145: `${keyPrefix}:${docName}:awareness:${clientId}`
awarenessKey(docName, clientId) ==
    keyPrefix \o <<Colon>> \o docName \o <<Colon>> \o StrAwareness
              \o <<Colon>> \o String(clientId)

\* Line 148: `${keyPrefix}:${docName}:awareness:*`
awarenessPattern(docName) ==
    keyPrefix \o <<Colon>> \o docName \o <<Colon>> \o StrAwareness
              \o <<Colon, Star>>

RECURSIVE LastSlash(_, _)
LastSlash(path, i) ==
    IF i = 0 \/ path[i] = Slash THEN i ELSE LastSlash(path, i - 1)

RECURSIVE getDocName(_)
\* getDocName, lines 105-109: pathname.split("/").filter(Boolean), the last
\* segment, or "default" when there is none.
getDocName(path) ==
    IF path = <<>> THEN StrDefault
    ELSE IF path[Len(path)] = Slash
         THEN getDocName(SubSeq(path, 1, Len(path) - 1))
         ELSE SubSeq(path, LastSlash(path, Len(path)) + 1, Len(path))

RECURSIVE GlobMatch(_, _)
\* KEYS pattern: a star stands for any run of bytes, every other byte of
\* these patterns for itself.
GlobMatch(pattern, key) ==
    IF pattern = <<>> THEN key = <<>>
    ELSE IF Head(pattern) = Star
         THEN \E i \in 0..Len(key) :
                 GlobMatch(Tail(pattern), SubSeq(key, i + 1, Len(key)))
         ELSE /\ key # <<>>
              /\ Head(key) = Head(pattern)
              /\ GlobMatch(Tail(pattern), Tail(key))

\* The pathnames of the requests: /a, /b/, /, /* and /a:awareness:9.
Pathnames ==
    {<<Slash, 97>>, <<Slash, 98, Slash>>, <<Slash>>, <<Slash, Star>>,
     <<Slash, 97, Colon>> \o StrAwareness \o <<Colon, 57>>}

\* The keys of the server.
KeysOf(space) == {e.key : e \in space}

\* The value at a key.
ValueAt(space, key) == (CHOOSE e \in space : e.key = key).val

\* SETEX key ttl value, and DEL key.
SetKey(space, key, val) ==
    {e \in space : e.key # key} \cup {[key |-> key, val |-> val]}

DelKey(space, key) == {e \in space : e.key # key}

\* set, lines 166-173, for the document of a request path.
SetNamed(t, path, clientId, update) ==
    /\ task[t].pc \in {"idle", "done"}
    /\ task[t].calls < cfg.calls
    /\ redis' = [redis EXCEPT
                   !.space = SetKey(@, awarenessKey(getDocName(path), clientId),
                                    update)]
    /\ obs' = [obs EXCEPT
                 !.written = @ \cup {[doc |-> getDocName(path), blob |-> update]}]
    /\ task' = [task EXCEPT ![t] =
                  [IdleTask EXCEPT !.pc = "done", !.op = "setNamed",
                                   !.docName = getDocName(path),
                                   !.calls = task[t].calls + 1]]
    /\ UNCHANGED <<cfg, req, gw, events>>

\* remove, lines 175-178, for the document of a request path.
RemoveNamed(t, path, clientId) ==
    /\ task[t].pc \in {"idle", "done"}
    /\ task[t].calls < cfg.calls
    /\ redis' = [redis EXCEPT
                   !.space = DelKey(@, awarenessKey(getDocName(path), clientId))]
    /\ task' = [task EXCEPT ![t] =
                  [IdleTask EXCEPT !.pc = "done", !.op = "removeNamed",
                                   !.docName = getDocName(path),
                                   !.calls = task[t].calls + 1]]
    /\ UNCHANGED <<cfg, req, gw, obs, events>>

\* getAll, line 152, for the document of a request path.
CallGetAllNamed(t, path) ==
    /\ task[t].pc \in {"idle", "done"}
    /\ task[t].calls < cfg.calls
    /\ task' = [task EXCEPT ![t] =
                  [IdleTask EXCEPT !.pc = "n_keys", !.op = "getAllNamed",
                                   !.docName = getDocName(path),
                                   !.calls = task[t].calls + 1]]
    /\ UNCHANGED <<redis, cfg, req, gw, obs, events>>

\* The keys KEYS returns for the pattern of a document.
Matching(space, docName) ==
    {k \in KeysOf(space) : GlobMatch(awarenessPattern(docName), k)}

\* getAll, lines 154-156: redis.keys(pattern), in any order; no key, no
\* values.
GetAllKeysNamed(t) ==
    /\ task[t].pc = "n_keys"
    /\ \E ks \in Orders(Matching(redis.space, task[t].docName)) :
          /\ task' = [task EXCEPT ![t] =
                        [@ EXCEPT !.pc = IF ks # <<>> THEN "n_mget" ELSE "done"]]
          /\ req' = [req EXCEPT ![t] = [@ EXCEPT !.keys = ks]]
    /\ UNCHANGED <<redis, cfg, gw, obs, events>>

RECURSIVE ValuesAt(_, _)
\* getAll, lines 159-163: mgetBuffer(keys) without the keys that are gone.
ValuesAt(space, ks) ==
    IF ks = <<>> THEN <<>>
    ELSE (IF Head(ks) \in KeysOf(space) THEN <<ValueAt(space, Head(ks))>>
          ELSE <<>>) \o ValuesAt(space, Tail(ks))

GetAllValuesNamed(t) ==
    /\ task[t].pc = "n_mget"
    /\ task' = [task EXCEPT ![t] =
                  [@ EXCEPT !.pc = "done",
                            !.ret = ValuesAt(redis.space, req[t].keys)]]
    /\ req' = [req EXCEPT ![t] = [@ EXCEPT !.keys = <<>>]]
    /\ UNCHANGED <<redis, cfg, gw, obs, events>>

\* One caller of one Awareness Store, each call for the document of a path.
InitNamed ==
    /\ InitCommon
    /\ cfg \in [threshold : {HandlerThreshold}, persistence : {FALSE},
                awareness : {TRUE}, calls : {MaxNamedCalls}, events : {0},
                relays : {FALSE}, batches : {FALSE}, ttl : {MaxTtl},
                returns : {FALSE}, runs : {FALSE},
                retry : {FALSE}, resync : {FALSE}, gap : {FALSE}]

NextNamed ==
    \/ \E p \in Pathnames : \E c \in ClientIds : \E u \in BlobsOf(c) :
          SetNamed(1, p, c, u)
    \/ \E p \in Pathnames : \E c \in ClientIds : RemoveNamed(1, p, c)
    \/ \E p \in Pathnames : CallGetAllNamed(1, p)
    \/ GetAllKeysNamed(1)
    \/ GetAllValuesNamed(1)

SpecNamed == InitNamed /\ [][NextNamed]_vars

\* ------------------------------------------------- removal frame, directly

\* A caller encodes the removal frame of a client id and a clock
\* (task.base and task.count keep the two arguments, task.update the frame).
EncodeRemoval(t, clientId, clock) ==
    /\ task[t].pc \in {"idle", "done"}
    /\ task[t].calls < cfg.calls
    /\ task' = [task EXCEPT ![t] =
                  [IdleTask EXCEPT !.pc = "r_decode", !.op = "encode",
                                   !.base = {clientId}, !.count = clock,
                                   !.update = encodeDisconnectAwareness(clientId, clock),
                                   !.calls = task[t].calls + 1]]
    /\ UNCHANGED <<redis, cfg, req, gw, obs, events>>

\* The frame is decoded as a peer (and the handler, lines 339 and 379-386)
\* decodes it: the outer type, the length-prefixed payload, the entries.
DecodeRemoval(t) ==
    /\ task[t].pc = "r_decode"
    /\ LET frame == task[t].update
           type == ReadVarUint(frame, 0)
           payload == ReadVarUint8Array(frame, type.pos)
           clients == parseAwarenessUpdate(payload.val)
       IN task' = [task EXCEPT ![t] =
                     [@ EXCEPT !.pc = "done", !.op = "decode",
                               !.ret = IF type.ok /\ payload.ok /\ clients.ok
                                          /\ payload.pos = Len(frame)
                                       THEN Present([type |-> type.val,
                                                     clients |-> clients.val])
                                       ELSE Missing]]
    /\ UNCHANGED <<redis, cfg, req, gw, obs, events>>

InitRemoval ==
    /\ InitCommon
    /\ cfg \in [threshold : {HandlerThreshold}, persistence : {FALSE},
                awareness : {FALSE}, calls : {1}, events : {0},
                relays : {FALSE}, batches : {FALSE}, ttl : {MaxTtl},
                returns : {FALSE}, runs : {FALSE},
                retry : {FALSE}, resync : {FALSE}, gap : {FALSE}]

\* The client ids and clocks around the lengths of a variable-length integer.
RemovalNumbers ==
    (0..MaxRemovalSpan) \cup (126..(126 + MaxRemovalSpan))
        \cup (16382..(16382 + MaxRemovalSpan))

NextRemoval ==
    \/ \E c \in RemovalNumbers : \E k \in RemovalNumbers :
          EncodeRemoval(1, c, k)
    \/ DecodeRemoval(1)

SpecRemoval == InitRemoval /\ [][NextRemoval]_vars

\* ------------------------------------------------ claims: persistence

\* What a returned getState holds, as a set of items (null holds nothing).
RetItems(t) == IF task[t].ret = Missing THEN {} ELSE UpdateItems(task[t].ret[1])

\* C1: with concurrent storeUpdate calls on one document, every update whose
\* append has completed is contained in merge(snapshot, update log), in every
\* reachable state.
C1_NoUpdateLost == obs.appended \subseteq Stored

\* C2: a getState that overlaps a compaction returns the merge of every update
\* that was appended (and still stored) when it started; stated for the runs in
\* which compaction has lost nothing, so that only the read is in question.
C2_GetStateConsistent ==
    \A t \in Tasks :
        (/\ task[t].pc = "done"
         /\ task[t].op = "getState"
         /\ obs.appended \subseteq Stored)
        => task[t].base \subseteq RetItems(t)

\* C3: with storeUpdate calls made one at a time, under any
\* compactionThreshold, merge(snapshot, update log) equals the merge of all the
\* updates stored, whenever a call has returned, and getState returns that merge
\* (null exactly when it is empty).
C3_CompactionEquivalence ==
    task[1].pc = "done" =>
        /\ Stored = obs.appended
        /\ task[1].op = "getState" =>
             /\ RetItems(1) = obs.appended
             /\ (task[1].ret = Missing) = (obs.appended = {})
             /\ task[1].ret # Missing =>
                  task[1].ret[1] = EncodeStateAsUpdate(obs.appended)

\* C3 witness: getState returned while the document is split between a
\* snapshot and a log that is not empty.
C3_Witness ==
    /\ task[1].pc = "done"
    /\ task[1].op = "getState"
    /\ redis.snapshot # Missing
    /\ redis.updates # <<>>
    /\ Cardinality(obs.appended) = MaxItem
    /\ UpdateItems(redis.snapshot[1]) # obs.appended

\* C4: with a compactionThreshold T > 0 and calls made one at a time, the
\* storeUpdate whose append brings the log to T entries has compacted when it
\* returns: the log is empty and the snapshot is the merge of all updates.
C4_ThresholdTrigger ==
    (/\ task[1].pc = "done"
     /\ task[1].op = "storeUpdate"
     /\ cfg.threshold > 0
     /\ task[1].lenAfter >= cfg.threshold)
    => /\ redis.updates = <<>>
       /\ redis.snapshot = Present(EncodeStateAsUpdate(obs.appended))

\* C4 witness: the spec's case, the third storeUpdate under threshold 3.
C4_Witness ==
    /\ task[1].pc = "done"
    /\ task[1].op = "storeUpdate"
    /\ cfg.threshold = 3
    /\ task[1].calls = 3
    /\ task[1].lenAfter = 3
    /\ redis.updates = <<>>
    /\ obs.appended # {}

\* --------------------------------------------- claims: session handler

\* The open branch is over and no frame of the request has been received yet.
HandshakeDone == task[1].pc = "h_recv" /\ req[1].got = "open"

\* The handler is through with the frame it received last.
FrameDone == task[1].pc = "h_recv" /\ req[1].got = "frame"

\* The close event has been handled; the response is next.
CloseDone == task[1].pc = "h_resp" /\ req[1].got = "close"

\* The entries of the removal frame published for the close event.
RemovalEntries(frame) == parseAwarenessUpdate(ReadVarUint8Array(frame, 1).val).val

\* C5 (the frames of the handshake): when the open branch is over, the
\* connection is accepted and subscribed and the frames queued for the client
\* are step1 with the empty state vector, then step2 wrapping the stored state
\* S (when the load succeeded and there is a state), then one awareness frame
\* per stored presence entry (when the load succeeded), and nothing else.
C5_HandshakeSent ==
    HandshakeDone =>
        LET fx == req[1].fx
            stateOk == /\ cfg.persistence
                       /\ \E i \in DOMAIN fx : fx[i].op = "getState" /\ fx[i].ok
            allOk == /\ cfg.awareness
                     /\ ~\E i \in DOMAIN fx : fx[i].op = "getAll" /\ ~fx[i].ok
            keys == {c \in ClientIds : redis.awareness[c] # Missing}
            head == <<[type |-> "OPEN", content |-> <<>>],
                      [type |-> "SUBSCRIBE", content |-> <<>>],
                      [type |-> "BINARY",
                       content |-> <<messageSync, messageYjsSyncStep1, 1, 0>>]>>
            step2 == IF stateOk /\ Stored # {}
                     THEN <<[type |-> "BINARY",
                             content |-> encodeSyncStep2(EncodeStateAsUpdate(Stored))]>>
                     ELSE <<>>
            sent == OutgoingEvents(req[1])
            n == Len(head) + Len(step2)
        IN /\ req[1].accepted
           /\ Len(sent) >= n
           /\ SubSeq(sent, 1, n) = head \o step2
           /\ IF allOk
              THEN \E ks \in Orders(keys) :
                      /\ Len(sent) = n + Len(ks)
                      /\ \A i \in 1..Len(ks) :
                            sent[n + i] =
                              [type |-> "BINARY",
                               content |-> encodeAwarenessMessage(
                                              redis.awareness[ks[i]][1])]
              ELSE Len(sent) = n

\* C5 (replies come after): within a request the queue of outgoing events only
\* grows at its end, so whatever is sent for a frame of the request follows
\* the frames of the handshake.
C5_RepliesAfter ==
    (req[1].conn # 0 /\ req'[1].conn = req[1].conn)
        => /\ Len(req[1].out) <= Len(req'[1].out)
           /\ SubSeq(req'[1].out, 1, Len(req[1].out)) = req[1].out

\* C5: handshake ordering on an opening request: accepted, subscribed, then
\* step1 (empty state vector), step2 (the persisted state S), one awareness
\* frame per stored presence entry, all before any reply to a frame carried in
\* the same request.
C5_HandshakeOrdering == [](C5_HandshakeSent) /\ [][C5_RepliesAfter]_vars

\* C5 witness: a second connection opens on a document with a stored state and
\* two stored presence entries, and is sent step1, step2 and two awareness
\* frames.
C5_Witness ==
    /\ HandshakeDone
    /\ req[1].conn = 2
    /\ Stored # {}
    /\ \A c \in ClientIds : redis.awareness[c] # Missing
    /\ Len(req[1].out) = 5
    /\ req[1].out[3].content = encodeSyncStep2(EncodeStateAsUpdate(Stored))

\* C6 as stated: for every step2 or update frame that decodes, with a
\* persistence provider configured, an append of the payload is attempted and
\* has completed before the frame is published, verbatim and once.
C6_AlwaysPersisted ==
    \A st \in {messageYjsSyncStep2, messageYjsUpdate} :
        (/\ FrameDone
         /\ cfg.persistence
         /\ Len(req[1].msg) >= 2
         /\ req[1].msg[1] = messageSync
         /\ req[1].msg[2] = st
         /\ ReadVarUint8Array(req[1].msg, 2).ok)
        => \E ok \in BOOLEAN :
              req[1].fx =
                <<Effect("storeUpdate", ok, 0, ReadVarUint8Array(req[1].msg, 2).val),
                  Effect("publish", TRUE, 0, req[1].msg)>>

\* C6, amended: for every step2 or update frame that decodes, the frame is
\* published verbatim and exactly once; when a persistence provider is
\* configured and the payload is not empty, the append of the payload is
\* attempted first and has completed (an append that succeeded is in the
\* store) before the publish; otherwise the frame is published without an
\* append.  Both sub-types are dispatched alike.
C6_PersistThenBroadcast ==
    /\ \A u \in FramePayloads :
          Dispatch(SyncFrame(messageYjsSyncStep2, u))
            = Dispatch(SyncFrame(messageYjsUpdate, u))
    /\ \A st \in {messageYjsSyncStep2, messageYjsUpdate} :
        (/\ FrameDone
         /\ Len(req[1].msg) >= 2
         /\ req[1].msg[1] = messageSync
         /\ req[1].msg[2] = st
         /\ ReadVarUint8Array(req[1].msg, 2).ok)
        => LET payload == ReadVarUint8Array(req[1].msg, 2).val
               pub == Effect("publish", TRUE, 0, req[1].msg)
           IN IF cfg.persistence /\ Len(payload) > 0
              THEN \E ok \in BOOLEAN :
                      /\ req[1].fx = <<Effect("storeUpdate", ok, 0, payload), pub>>
                      /\ ok => UpdateItems(payload) \subseteq Stored
              ELSE req[1].fx = <<pub>>

\* C6 witness: a step2 frame with a payload was stored and then published.
C6_Witness ==
    /\ FrameDone
    /\ req[1].msg = SyncFrame(messageYjsSyncStep2, EncodeStateAsUpdate({2}))
    /\ Len(req[1].fx) = 2
    /\ req[1].fx[1].op = "storeUpdate"
    /\ req[1].fx[1].ok
    /\ req[1].fx[2].op = "publish"
    /\ 2 \in Stored

\* C7: when the close event has been handled for a connection whose metadata
\* holds client-id c and client-clock k, the connection is closed and exactly
\* one frame was published, an awareness frame with the single entry
\* (c, k + 1, removal); with an awareness store the removal of (doc, c) was
\* attempted before the publish and, when it did not fail, the store holds no
\* entry for c.
C7_DisconnectBroadcast ==
    \A c \in ClientIds, k \in Clocks :
        (CloseDone /\ req[1].meta = [id |-> String(c), clock |-> String(k)])
        => LET fx == req[1].fx
               pubs == {i \in DOMAIN fx : fx[i].op = "publish"}
           IN /\ req[1].closed
              /\ Cardinality(pubs) = 1
              /\ \A i \in pubs :
                    /\ fx[i].data[1] = messageAwareness
                    /\ RemovalEntries(fx[i].data)
                         = <<[clientId |-> c, clock |-> k + 1, isNull |-> TRUE]>>
                    /\ cfg.awareness =>
                         \E j \in 1..(i - 1) :
                            /\ fx[j].op = "remove"
                            /\ fx[j].ok => redis.awareness[c] = Missing

\* C7 witness: the connection bound to client 200 at clock 1 was closed, the
\* entry removed and the removal frame published.
C7_Witness ==
    /\ CloseDone
    /\ req[1].meta = [id |-> String(200), clock |-> String(1)]
    /\ req[1].closed
    /\ Len(req[1].fx) = 2
    /\ req[1].fx[1].op = "remove"
    /\ req[1].fx[1].ok
    /\ req[1].fx[2].op = "publish"
    /\ redis.awareness[200] = Missing

\* C8: the clock of the removal published on close is strictly greater than
\* the clock of every presence entry (no removal) for the bound client id that
\* the connection relayed to the channel.
C8_RemovalOutRanks ==
    CloseDone =>
        \A i \in DOMAIN req[1].fx :
            req[1].fx[i].op = "publish"
            => LET e == RemovalEntries(req[1].fx[i].data)[1]
               IN e.clock > obs.relayed[req[1].conn][e.clientId]

\* C9 (one step): a client-id that is set keeps its value, in the request's
\* metadata and in the metadata the gateway holds for the connection, and a
\* request starts from the metadata the gateway holds.
C9_IdKept ==
    /\ \A c \in Conns :
          gw.meta[c].id # <<>> => gw'.meta[c].id = gw.meta[c].id
    /\ (req[1].conn # 0 /\ req'[1].conn = req[1].conn /\ req[1].meta.id # <<>>)
          => req'[1].meta.id = req[1].meta.id
    /\ (req[1].conn = 0 /\ req'[1].conn # 0)
          => req'[1].meta = gw.meta[req'[1].conn]

\* C9: first writer wins: once client-id is set in the connection metadata, no
\* later presence entry changes it, in the same request or in a later one.
C9_FirstWriterWins == [][C9_IdKept]_vars

\* C9 witness: a connection bound to client 1 in an earlier request has just
\* stored an entry of client 200, and is still bound to client 1.
C9_Witness ==
    /\ gw.meta[1].id = String(1)
    /\ req[1].conn = 1
    /\ req[1].meta.id = String(1)
    /\ \E i \in DOMAIN req[1].fx :
          /\ req[1].fx[i].op = "set"
          /\ req[1].fx[i].ok
          /\ req[1].fx[i].id = 200

\* C10: when the handler is through with an awareness frame that holds an
\* entry (no removal) for the connection's bound client id, client-clock is
\* that entry's clock, also when a store operation failed on the way.
C10_ClockFollows ==
    FrameDone =>
        \A p \in PresenceOf(req[1].msg) :
            req[1].meta.id = String(p[1]) => req[1].meta.clock = String(p[2])

\* C11: when the handler is through with an awareness frame whose payload
\* could be read, the frame was published verbatim and exactly once, as the
\* last effect, after the store operations for its entries: all of them when
\* none failed, those up to the first failure otherwise, none without an
\* Awareness Store.
C11_AwarenessRebroadcast ==
    (/\ FrameDone
     /\ Len(req[1].msg) >= 1
     /\ req[1].msg[1] = messageAwareness
     /\ ReadVarUint8Array(req[1].msg, 1).ok)
    => LET fx == req[1].fx
           n == Len(fx)
           clients == parseAwarenessUpdate(ReadVarUint8Array(req[1].msg, 1).val)
       IN /\ n >= 1
          /\ fx[n] = Effect("publish", TRUE, 0, req[1].msg)
          /\ \A i \in 1..(n - 1) : fx[i].op \in {"set", "remove"}
          /\ \A i \in 1..(n - 2) : fx[i].ok
          /\ ~cfg.awareness => n = 1
          /\ (cfg.awareness /\ clients.ok /\ \A i \in 1..(n - 1) : fx[i].ok)
                => n - 1 = Len(clients.val)

\* C11 witness: a frame with two entries, the first stored, the second
\* failing in the store, was published all the same.
C11_Witness ==
    /\ FrameDone
    /\ Len(req[1].fx) = 3
    /\ req[1].fx[1].op = "set"
    /\ req[1].fx[1].ok
    /\ ~req[1].fx[2].ok
    /\ req[1].fx[3] = Effect("publish", TRUE, 0, req[1].msg)
    /\ redis.awareness[1] # Missing
    /\ redis.awareness[200] = Missing

\* C12: a storage failure skips only its own side effect.  (a) A step2/update
\* frame whose storeUpdate failed was published once all the same.  (b) An
\* opening request whose getState failed is accepted and subscribed, was sent
\* step1 and no step2, and was sent the stored presence frames (when their
\* load did not fail too).  (c) A close whose awareness removal failed
\* published the removal frame and closed the connection all the same.
C12_FailureSkipsOwnEffect ==
    LET fx == req[1].fx
        failed(op) == \E i \in DOMAIN fx : fx[i].op = op /\ ~fx[i].ok
        pubs == {i \in DOMAIN fx : fx[i].op = "publish"}
        keys == {c \in ClientIds : redis.awareness[c] # Missing}
    IN /\ (FrameDone /\ failed("storeUpdate"))
            => /\ pubs = {Len(fx)}
               /\ fx[Len(fx)].data = req[1].msg
       /\ (HandshakeDone /\ failed("getState"))
            => /\ req[1].accepted
               /\ Len(req[1].out) >= 2
               /\ req[1].out[1].type = "SUBSCRIBE"
               /\ req[1].out[2] = Binary(encodeSyncStep1(emptyStateVector))
               /\ (cfg.awareness /\ ~failed("getAll"))
                     => /\ Len(req[1].out) = 2 + Cardinality(keys)
                        /\ \A c \in keys : \E i \in 3..Len(req[1].out) :
                              req[1].out[i] =
                                Binary(encodeAwarenessMessage(redis.awareness[c][1]))
       /\ (CloseDone /\ failed("remove"))
            => /\ req[1].closed
               /\ pubs = {Len(fx)}
               /\ RemovalEntries(fx[Len(fx)].data)[1].isNull

\* C12 witness: the opening request of a second connection, whose getState
\* failed, was still sent step1 and the two stored presence frames.
C12_Witness ==
    /\ HandshakeDone
    /\ req[1].conn = 2
    /\ \E i \in DOMAIN req[1].fx : req[1].fx[i].op = "getState" /\ ~req[1].fx[i].ok
    /\ \A c \in ClientIds : redis.awareness[c] # Missing
    /\ req[1].accepted
    /\ Len(req[1].out) = 4

\* C13: no error while a frame is processed ends the connection or stops the
\* batch.  The response carries a CLOSE event exactly when the close event
\* was received; a frame, however it ends, leaves the handler in its receive
\* loop, where the next frame of the batch is received.
C13_ErrorsKeepConnection ==
    /\ req[1].closed => req[1].got = "close"
    /\ AtResponse(1) =>
          ((\E i \in DOMAIN OutgoingEvents(req[1]) :
                OutgoingEvents(req[1])[i].type = "CLOSE")
             <=> req[1].got = "close")
    /\ req[1].got = "frame" => task[1].pc # "h_resp"
    /\ (FrameDone /\ events < cfg.events)
          => ENABLED RecvFrame(1, <<messageQueryAwareness>>)
    /\ \A c \in Conns : gw.state[c] = "closed" => events > 0

\* C13 witness: in one request a frame that failed, a frame that was stored
\* and published, and then the close event, which alone closed the connection.
C13_Witness ==
    /\ CloseDone
    /\ req[1].closed
    /\ req[1].opening
    /\ req[1].batch = <<"error", "done">>
    /\ redis.awareness[1] # Missing

\* C14: a malformed frame is skipped: when the handler is through with a frame
\* whose outer type, sub-type or length-prefixed payload cannot be decoded, or
\* with an awareness frame whose presence payload is cut short, it has made
\* no store call and no broadcast for it.
C14_MalformedSkipped ==
    (FrameDone /\ req[1].msg \in MalformedFrames) => req[1].fx = <<>>

\* The frame the handler is handling is a step1 frame that decodes.
Step1Received ==
    /\ req[1].got = "frame"
    /\ Len(req[1].msg) >= 2
    /\ req[1].msg[1] = messageSync
    /\ req[1].msg[2] = messageYjsSyncStep1
    /\ ReadVarUint8Array(req[1].msg, 2).ok

\* C15 (the reply): when the handler is through with a step1 frame, it has
\* published nothing; with a persistence provider it has loaded the state and,
\* when the load succeeded and a state exists, queued one step2 frame carrying
\* the whole stored state for the requesting connection, and no frame
\* otherwise.  The state vector plays no part: frames that differ in it only
\* are dispatched alike.
C15_Step1Reply ==
    /\ \A sv \in {<<1, 1, 1>>, <<2, 1, 1, 2, 0>>} :
          Dispatch(encodeSyncStep1(sv)) = Dispatch(encodeSyncStep1(emptyStateVector))
    /\ (FrameDone /\ Step1Received)
          => LET fx == req[1].fx
                 step2 == <<messageSync, messageYjsSyncStep2>>
                            \o WriteVarUint8Array(EncodeStateAsUpdate(Stored))
             IN IF ~cfg.persistence THEN fx = <<>>
                ELSE /\ Len(fx) >= 1
                     /\ fx[1].op = "getState"
                     /\ IF fx[1].ok /\ Stored # {}
                        THEN /\ fx = <<fx[1], Effect("send", TRUE, 0, step2)>>
                             /\ req[1].out[Len(req[1].out)] = Binary(step2)
                        ELSE Len(fx) = 1

\* C15 (no other effect): while a step1 frame is handled, the store, the
\* metadata and what was relayed do not change.
C15_Step1Quiet ==
    (Step1Received /\ req'[1].got = "frame" /\ req'[1].msg = req[1].msg)
        => /\ redis' = redis
           /\ req'[1].meta = req[1].meta
           /\ obs' = obs
           /\ gw' = gw

\* C15: a step1 frame is answered with the full persisted state as one step2
\* frame to the requesting connection when a state exists, whatever the state
\* vector, with no broadcast and no change of persistence, awareness or
\* metadata state.
C15_Step1FullState == [](C15_Step1Reply) /\ [][C15_Step1Quiet]_vars

\* C15 witness: a step1 frame with a state vector that is not empty was
\* answered with the stored state.
C15_Witness ==
    /\ FrameDone
    /\ req[1].msg = encodeSyncStep1(<<1, 1, 1>>)
    /\ Stored # {}
    /\ Len(req[1].fx) = 2
    /\ req[1].fx[2].op = "send"

\* The frame the handler is handling is a query-awareness frame.
QueryReceived ==
    /\ req[1].got = "frame"
    /\ Len(req[1].msg) >= 1
    /\ req[1].msg[1] = messageQueryAwareness

\* C16 (the broadcast): when the handler is through with a query-awareness
\* frame, its one effect is the publish of the received bytes.
C16_QueryPublished ==
    (FrameDone /\ QueryReceived)
        => req[1].fx = <<Effect("publish", TRUE, 0, req[1].msg)>>

\* C16 (no other effect): while a query-awareness frame is handled, nothing
\* is queued for the requesting connection and the store, the metadata and the
\* gateway state do not change.
C16_QueryQuiet ==
    (QueryReceived /\ req'[1].got = "frame" /\ req'[1].msg = req[1].msg)
        => /\ req'[1].out = req[1].out
           /\ redis' = redis
           /\ req'[1].meta = req[1].meta
           /\ gw' = gw

\* C16: a query-awareness frame is broadcast verbatim to the channel, no frame
\* is sent to the requesting connection, and no persistence, Awareness Store
\* or metadata state changes.
C16_QueryAwareness == [](C16_QueryPublished) /\ [][C16_QueryQuiet]_vars

\* C16 witness: a connection bound to a client id asked for the presence of
\* the others, and the frame was published.
C16_Witness ==
    /\ FrameDone
    /\ req[1].msg = <<messageQueryAwareness>>
    /\ Len(req[1].fx) = 1
    /\ req[1].fx[1].op = "publish"
    /\ req[1].meta.id # <<>>

Returned(t) == {task[t].ret[i] : i \in DOMAIN task[t].ret}

\* C18: presence time-to-live.  An entry is in the store, with the blob last
\* set, exactly while its last set is less than the time-to-live ago (and no
\* remove followed): from the set on, from every further set on anew, and no
\* longer once the time-to-live has passed, remove or no remove; and a getAll
\* returns the blobs of exactly the entries that are in the store by this
\* rule when it returns.
C18_PresenceTtl ==
    /\ \A c \in ClientIds :
          redis.awareness[c] = (IF c \in Alive THEN obs.last[c] ELSE Missing)
    /\ (task[1].pc = "done" /\ task[1].op = "getAll")
          => /\ Returned(1) = {obs.last[c][1] : c \in task[1].base}
             /\ Len(task[1].ret) = Cardinality(task[1].base)

\* C18 witness: a getAll returned nothing for a client whose entry was set,
\* never removed, and is two seconds old under a time-to-live of two seconds.
C18_Witness ==
    /\ task[1].pc = "done"
    /\ task[1].op = "getAll"
    /\ task[1].ret = <<>>
    /\ cfg.ttl = 2
    /\ obs.last[1] # Missing
    /\ obs.age[1] = 2
    /\ redis.awareness[1] = Missing

\* The store holds no snapshot and no update.
EmptyDocument == redis.snapshot = Missing /\ redis.updates = <<>>

\* The frame is a step2 frame.
IsStep2(frame) ==
    Len(frame) >= 2 /\ frame[1] = messageSync /\ frame[2] = messageYjsSyncStep2

\* C19: empty-document sentinel.  When the handler is through with an open
\* event or a step1 frame on a document with no snapshot and an empty update
\* log, a getState that succeeded returned absent (null), not a blob, and no
\* step2 frame was sent: none among the effects, none among the outgoing
\* events of the connection.
C19_EmptySentinel ==
    ((HandshakeDone \/ (FrameDone /\ Step1Received)) /\ EmptyDocument)
        => /\ \A i \in DOMAIN req[1].fx :
                 /\ (req[1].fx[i].op = "getState" /\ req[1].fx[i].ok)
                        => req[1].fx[i].data = Missing
                 /\ req[1].fx[i].op = "send" => ~IsStep2(req[1].fx[i].data)
           /\ \A i \in DOMAIN req[1].out : ~IsStep2(req[1].out[i].content)

\* C19 witness: an open event and a step1 frame of the same request, both
\* handled on an empty document with a getState that succeeded, and the only
\* frame sent is the step1 of the handshake.
C19_Witness ==
    /\ FrameDone
    /\ Step1Received
    /\ EmptyDocument
    /\ req[1].opening
    /\ req[1].accepted
    /\ req[1].batch = <<>>
    /\ req[1].fx = <<Effect("getState", TRUE, 0, Missing)>>
    /\ req[1].out = <<[type |-> "SUBSCRIBE", content |-> <<>>],
                     Binary(encodeSyncStep1(emptyStateVector))>>

\* C20: merge idempotence.  A getState returns what the caller's getState
\* before it returned whenever every blob stored in between had been stored
\* before; in particular getState after a blob was stored twice returns what
\* it returned after the blob was stored once, under every compactionThreshold
\* (none, at every store, at every other store, ...).
C20_MergeIdempotent ==
    (task[1].pc = "done" /\ task[1].op = "getState" /\ obs.result # <<>>)
        => task[1].ret = obs.result[1]

\* C20 witness: with compaction at every store, a blob was stored, getState
\* returned the state, the blob was stored again (and compacted again), and
\* getState has returned.
C20_Witness ==
    /\ cfg.threshold = 1
    /\ task[1].pc = "done"
    /\ task[1].op = "getState"
    /\ task[1].calls = 4
    /\ obs.again
    /\ obs.stored = {EncodeStateAsUpdate({1, 2})}
    /\ obs.result = <<Present(EncodeStateAsUpdate({1, 2}))>>
    /\ redis.snapshot = Present(EncodeStateAsUpdate({1, 2}))
    /\ redis.updates = <<>>

\* C21: removal clock round-trip.  For every client id c and clock k, the
\* frame the removal encoder produces for (c, k) decodes to an awareness
\* envelope whose payload holds exactly one entry: clientId = c,
\* clock = k + 1, and the state that signals removal.
C21_RemovalRoundTrip ==
    (task[1].pc = "done" /\ task[1].op = "decode")
        => /\ task[1].ret # Missing
           /\ task[1].ret[1].type = messageAwareness
           /\ Len(task[1].ret[1].clients) = 1
           /\ {task[1].ret[1].clients[1].clientId} = task[1].base
           /\ task[1].ret[1].clients[1].clock = task[1].count + 1
           /\ task[1].ret[1].clients[1].isNull

\* C21 witness: the frame for client id 128 and clock 127 (the id and the
\* clock + 1 both take two bytes) was decoded to one removal entry with id 128
\* and clock 128.
C21_Witness ==
    /\ task[1].pc = "done"
    /\ task[1].op = "decode"
    /\ task[1].base = {128}
    /\ task[1].count = 127
    /\ task[1].update = <<1, 10, 1, 128, 1, 128, 1, 4, 110, 117, 108, 108>>
    /\ task[1].ret = Present([type |-> 1,
                              clients |-> <<[clientId |-> 128, clock |-> 128,
                                             isNull |-> TRUE]>>])

ReadClean(t) ==
    /\ task[t].pc = "done"
    /\ task[t].op = "getState"
    /\ ~task[t].threw
    /\ obs.began[t] = obs.writes

\* C23 (same result): a getState that returns with no write since the getState
\* before it began returns what that one returned; so do two getState calls
\* of two callers with no write since either began.
C23_SameResult ==
    /\ \A t \in Tasks :
          (ReadClean(t) /\ obs.reads # <<>> /\ obs.reads[1].at = obs.writes)
              => task[t].ret = obs.reads[1].ret
    /\ (ReadClean(1) /\ ReadClean(2)) => task[1].ret = task[2].ret

\* C23 (read-only): no step of a getState, the failing ones included, changes
\* the snapshot or the update log.
C23_ReadOnly ==
    \A t \in Tasks :
       (task[t].op = "getState" /\ task[t].pc \in {"g_get", "g_lrange"}
          /\ task'[t] # task[t])
            => /\ redis'.snapshot = redis.snapshot
               /\ redis'.updates = redis.updates

\* C23: getState is read-only and safe to retry.
C23_GetStateRetry == [](C23_SameResult) /\ [][C23_ReadOnly]_vars

\* C23 witness: a getState of caller 1 returned the state, its next getState
\* failed, and then the same result was returned to caller 2, from a store
\* that holds a snapshot.
C23_Witness ==
    /\ ReadClean(2)
    /\ task[1].pc = "done"
    /\ task[1].op = "getState"
    /\ task[1].threw
    /\ obs.reads # <<>>
    /\ obs.reads[1].at = obs.writes
    /\ obs.reads[1].ret = task[2].ret
    /\ task[2].ret # Missing
    /\ redis.snapshot # Missing

\* C24 (one entry per call): with compactionThreshold = 0 the snapshot is
\* never written, the append of a storeUpdate is the last step of the call
\* and adds its update at the end of the log, and no other step changes the
\* log.
C24_OneEntryPerCall ==
    cfg.threshold = 0
        => /\ redis'.snapshot = Missing
           /\ IF task[1].pc = "su_rpush" /\ task'[1] # task[1]
              THEN /\ task'[1].pc = "done"
                   /\ ~task'[1].threw
                   /\ redis'.updates = Append(redis.updates, task[1].update)
              ELSE redis'.updates = redis.updates

\* C24: compactionThreshold = 0 disables auto-compaction.
C24_CompactionDisabled ==
    [](cfg.threshold = 0 => redis.snapshot = Missing)
        /\ [][C24_OneEntryPerCall]_vars

\* C24 witness: five storeUpdate calls under compactionThreshold = 0 have
\* returned; the log holds five entries and there is no snapshot.
C24_Witness ==
    /\ cfg.threshold = 0
    /\ task[1].pc = "done"
    /\ task[1].op = "storeUpdate"
    /\ task[1].calls = 5
    /\ Len(redis.updates) = 5
    /\ redis.snapshot = Missing

\* A storeUpdate of caller t is in flight.
StoreInFlight(t) == task[t].op = "storeUpdate" /\ Running(t)

\* C25: log growth is bounded.  With compactionThreshold T > 0 and a store
\* that works, whenever no storeUpdate is in flight the update log holds
\* fewer than T entries, with writers that run concurrently.
C25_LogBounded ==
    (cfg.threshold > 0 /\ \A t \in Tasks : ~StoreInFlight(t))
        => Len(redis.updates) < cfg.threshold

\* C25 witness: under threshold 2 both callers have made two calls each, the
\* last a storeUpdate, a compaction ran, and one entry is left in the log.
C25_Witness ==
    /\ cfg.threshold = 2
    /\ \A t \in Tasks :
          task[t].pc = "done" /\ task[t].op = "storeUpdate" /\ task[t].calls = 2
    /\ redis.snapshot # Missing
    /\ Len(redis.updates) = 1

\* C26 (the write of the compaction): when a compaction that has read the
\* snapshot and the log runs its pipeline in one go, the store holds exactly
\* what the compaction read: the log is empty and the snapshot is the merge
\* it computed, so an update appended to the log after the read is in
\* neither.
C26_CompactionOverwrites ==
    \A t \in Tasks :
       (task[t].pc = "c_exec" /\ task'[t].pc = "done")
          => /\ redis'.updates = <<>>
             /\ redis'.snapshot = Present(EncodeStateAsUpdate(task[t].doc))
             /\ Stored' = task[t].doc
             /\ \A i \in ItemsOfAll(redis.updates) \ task[t].doc : i \notin Stored'

\* C26: the documented race.  A storeUpdate call never returns an error while
\* the store works, and the compaction writes what it read, whatever was
\* appended since.
C26_DocumentedRace ==
    [](\A t \in Tasks : (task[t].pc = "done" /\ task[t].op = "storeUpdate")
                           => ~task[t].threw)
        /\ [][C26_CompactionOverwrites]_vars

\* C26 witness: the race has happened.  Both callers' storeUpdate calls have
\* returned without error, a compaction has written its snapshot and cleared
\* the log, and an item that was appended is in neither.
C26_Witness ==
    /\ \A t \in Tasks :
          task[t].pc = "done" /\ task[t].op = "storeUpdate" /\ ~task[t].threw
    /\ task[1].calls = 1
    /\ task[2].calls = 1
    /\ redis.updates = <<>>
    /\ redis.snapshot # Missing
    /\ obs.appended \ Stored # {}

\* C27: the entries of an awareness frame are applied in payload order.  When
\* the handler is through with an awareness frame, the first event of its
\* request, the store calls made are one per entry, in the order of the
\* payload: remove(clientId) for an entry that signals removal, set(clientId,
\* payload) for any other; the store holds the payload for the client ids
\* whose (last) entry is no removal, nothing for the ids whose (last) entry
\* is a removal, and what it held before the request for every other id.
C27_EntriesInOrder ==
    (/\ FrameDone
     /\ obs.run # <<>>
     /\ Len(obs.run[1].events) = 1
     /\ Len(req[1].msg) >= 1
     /\ req[1].msg[1] = messageAwareness
     /\ ReadVarUint8Array(req[1].msg, 1).ok
     /\ parseAwarenessUpdate(ReadVarUint8Array(req[1].msg, 1).val).ok)
    => LET payload == ReadVarUint8Array(req[1].msg, 1).val
           cs == parseAwarenessUpdate(payload).val
           before == obs.run[1].store.awareness
           fx == req[1].fx
       IN /\ Len(fx) = Len(cs) + 1
          /\ \A i \in 1..Len(cs) :
                fx[i] = IF cs[i].isNull
                        THEN Effect("remove", TRUE, cs[i].clientId, <<>>)
                        ELSE Effect("set", TRUE, cs[i].clientId, payload)
          /\ \A c \in ClientIds :
                LET at == {i \in 1..Len(cs) : cs[i].clientId = c}
                IN redis.awareness[c] =
                     IF at = {} THEN before[c]
                     ELSE IF cs[CHOOSE i \in at : \A j \in at : j <= i].isNull
                     THEN Missing
                     ELSE Present(payload)

\* C27 witness: a frame with an entry for client 1 and a removal for client
\* 200, received when the store held an entry for client 200 only, has left
\* an entry for client 1 only.
C27_Witness ==
    /\ FrameDone
    /\ obs.run # <<>>
    /\ Len(obs.run[1].events) = 1
    /\ req[1].msg = encodeAwarenessMessage(EncodeAwarenessUpdate(
                       <<[clientId |-> 1, clock |-> 1, state |-> StrEmptyObject],
                         [clientId |-> 200, clock |-> 1, state |-> StrNull]>>))
    /\ obs.run[1].store.awareness[1] = Missing
    /\ obs.run[1].store.awareness[200] # Missing
    /\ redis.awareness[1] = Present(ReadVarUint8Array(req[1].msg, 1).val)
    /\ redis.awareness[200] = Missing
    /\ Len(req[1].fx) = 3

\* The frame has an outer type the handler has no branch for (auth among
\* them), or is a sync frame of a sub-type it has no branch for.
NoBranchFor(message) ==
    LET messageType == ReadVarUint(message, 0)
        syncType == ReadVarUint(message, messageType.pos)
    IN /\ messageType.ok
       /\ IF messageType.val = messageSync
          THEN /\ syncType.ok
               /\ syncType.val \notin {messageYjsSyncStep1, messageYjsSyncStep2,
                                       messageYjsUpdate}
          ELSE messageType.val \notin {messageAwareness, messageQueryAwareness}

\* C28 (no effect): the step that receives a frame of an unknown type or
\* sub-type leaves the stores, the metadata, the outgoing events and the
\* gateway as they are, makes no store call, send or broadcast, and ends in
\* the receive loop.
C28_UnknownReceived ==
    (req'[1].got = "frame" /\ events' = events + 1 /\ NoBranchFor(req'[1].msg))
        => /\ redis' = redis
           /\ gw' = gw
           /\ req'[1].meta = req[1].meta
           /\ req'[1].out = req[1].out
           /\ req'[1].accepted = req[1].accepted
           /\ req'[1].closed = req[1].closed
           /\ req'[1].fx = <<>>
           /\ task'[1].pc = "h_recv"

\* C28 (the batch goes on): when the handler is through with such a frame it
\* has made no store call, send or broadcast, and while events remain the
\* next frame of the batch can be received.
C28_UnknownDone ==
    (FrameDone /\ NoBranchFor(req[1].msg))
        => /\ req[1].fx = <<>>
           /\ ~req[1].closed
           /\ events < cfg.events => ENABLED RecvFrame(1, <<messageQueryAwareness>>)

\* C28: frames of an unknown outer type or sync sub-type are ignored.
C28_UnknownIgnored == [](C28_UnknownDone) /\ [][C28_UnknownReceived]_vars

\* C28 witness: an auth frame was ignored and the update frame after it in
\* the same request was stored and published; a frame of sub-type 7 has now
\* been received and ignored.
C28_Witness ==
    /\ FrameDone
    /\ req[1].msg = <<messageSync, 7, 0>>
    /\ req[1].batch = <<"error", "done">>
    /\ req[1].fx = <<>>
    /\ redis.updates # <<>>
    /\ events = 3

\* The items that were not durably saved: those of an update whose
\* storeUpdate failed, and those appended to the log and dropped from it.
Unsaved == (obs.unsaved \cup obs.appended) \ Stored

\* Connection 2 has answered the handshake with a step2 that carries an item
\* that was not durably saved, and the store works from now on.
ResyncReceived ==
    /\ task[2].pc = "su_rpush"
    /\ req[2].conn = 2
    /\ req[2].msg = Step2Full
    /\ events > MaxFailedEvents
    /\ 1 \in Unsaved

\* C29: eventual convergence after a lost write.  Once a client has answered
\* the handshake with a step2 that carries an update that was not durably
\* saved, and the store works, the persisted state eventually contains the
\* update for good (every later getState returns it).
C29_EventualConvergence == [](ResyncReceived => <>[](1 \in Stored))

\* The items of the snapshot key.
SnapshotItems(r) ==
    IF r.snapshot = Missing THEN {} ELSE UpdateItems(r.snapshot[1])

\* C30: the snapshot never regresses.  Only a compaction writes the snapshot
\* key, so a write that follows another one by a compaction that had read
\* the key before it is a write of overlapping compactions; after every
\* snapshot write the snapshot contains every update it contained before.
C30_SnapshotNeverRegresses ==
    [][redis'.snapshot # redis.snapshot
          => SnapshotItems(redis) \subseteq SnapshotItems(redis')]_vars

\* C31: no gap between handshake state and live broadcasts.  Once the open
\* response of connection 2 has reached the gateway, every update that was
\* broadcast (before, while or after connection 2 opened) has been passed to
\* connection 2, in the step2 of its handshake or as a broadcast frame.
C31_NoGap ==
    gw.state[2] = "active" => obs.published \subseteq obs.delivered[2]

\* The presence key of the client the closing connection is bound to was set
\* through another connection b, which is live.
OthersPresence(t, b) ==
    /\ b # req[t].conn
    /\ gw.state[b] = "active"
    /\ obs.writer[parseInt(req[t].meta.id).val] = b

\* The removal frame the close branch of request t publishes (line 316).
RemovalOf(t) ==
    encodeDisconnectAwareness(parseInt(req[t].meta.id).val,
                              parseInt(req[t].meta.clock).val)

\* The latest clock connection b stored for the client it is bound to.
LatestClock(b) == parseInt(gw.meta[b].clock).val

\* C32: closing one connection never deletes presence written through
\* another live connection.  When the close branch removes the bound
\* client's presence and the key was set through another connection that is
\* live, the key is left as it is, and the removal frame the close publishes
\* next carries no clock above that connection's latest clock.
C32_CloseKeepsOthers ==
    [][\A t \in Tasks : \A b \in Conns :
         (task[t].pc = "x_remove" /\ task'[t].pc = "x_publish"
             /\ OthersPresence(t, b))
            => /\ redis'.awareness = redis.awareness
               /\ req'[t].meta = req[t].meta
               /\ RemovalEntries(RemovalOf(t))[1].clock <= LatestClock(b)]_vars

\* The presence of client c was removed from the store (a removal entry or
\* the cleanup of a close) and none was stored for c since.
Removed(c) == obs.writer[c] = -1 /\ redis.awareness[c] = Missing

\* C33: after the presence of client c has been removed from the store and
\* no later presence for c was stored, the handshake of a newly opened
\* connection contains no non-removal presence entry for c.
C33_RemovedNotReplayed ==
    \A c \in ClientIds :
       (HandshakeDone /\ Removed(c))
          => \A i \in DOMAIN req[1].out :
                \A p \in PresenceOf(req[1].out[i].content) : p[1] # c

\* The CRDT peer whose client sends on connection c: client 1 on connection
\* 1, client 200 on connection 2.
Peer(c) == IF c = 1 THEN 1 ELSE 200

PresenceRelayed ==
    /\ FrameDone
    /\ \E i \in DOMAIN req[1].fx :
          /\ req[1].fx[i].op = "publish"
          /\ req[1].fx[i].ok
          /\ PresenceOf(req[1].fx[i].data) # {}

\* C35: metadata binding does not depend on the store.  When a handler
\* configured without an awareness store has relayed a frame with a
\* non-removal presence entry, client-id and client-clock are set in the
\* connection's metadata (so that its close broadcasts a removal frame).
C35_BoundWithoutStore ==
    (PresenceRelayed /\ ~cfg.awareness) => MetaBound(req[1].meta)

\* The close event of the request was emitted (wsContext.close()): the loop
\* is left with the close as the event handled last, no frame can be
\* received, and the gateway sends a closed connection no request.
C36_Closed ==
    /\ req[1].closed
          => /\ task[1].pc = "h_resp"
             /\ req[1].got = "close"
             /\ \A f \in PresenceFrames : ~ENABLED RecvFrame(1, f)
    /\ gw.state[1] = "closed" => ~ENABLED StartRequest(1, 1)

\* The only step after the close event is emitted is the response: the store
\* is left as it is, nothing more is sent or broadcast, no event is received,
\* and the gateway gets the metadata as the close branch left it.
C36_AfterClose ==
    req[1].closed
       => /\ redis' = redis
          /\ events' = events
          /\ task'[1] = IdleTask
          /\ req'[1] = IdleReq
          /\ gw' = [gw EXCEPT !.meta[req[1].conn] = req[1].meta,
                              !.state[req[1].conn] = "closed"]

\* C36: CLOSED is terminal within a batch.  Once the handler has processed
\* the close event of a request, no later frame of the batch is processed:
\* nothing is persisted, stored, bound in metadata, sent or broadcast after
\* the close event is emitted.
C36_ClosedTerminal == [](C36_Closed) /\ [][C36_AfterClose]_vars

\* C36 witness: the close event of a bound connection has been handled (the
\* presence removed, the removal published, the close emitted) while one
\* more event of the batch is left unread.
C36_Witness ==
    /\ req[1].closed
    /\ req[1].left = 1
    /\ MetaBound(req[1].meta)
    /\ Len(req[1].fx) = 2
    /\ req[1].fx[1].op = "remove"
    /\ req[1].fx[2].op = "publish"

\* The last storeUpdate of the caller failed after its append, in the length
\* check or in the compaction it triggered.
FailedAfterAppend == obs.fail # <<>> /\ task[1].pc = "done"

\* C37: a storeUpdate that fails during the length check or the compaction
\* it triggered reports an error to the caller and does not undo the append:
\* the store is as it was after the append (the update in the log, the
\* snapshot and the rest of the log unchanged), and a getState after it
\* returns a state that contains the update.
C37_FailureKeepsAppend ==
    /\ (FailedAfterAppend /\ task[1].op = "storeUpdate")
          => /\ task[1].threw
             /\ redis = obs.fail[1].store
             /\ UpdateItems(obs.fail[1].update) \subseteq ItemsOfAll(redis.updates)
    /\ (FailedAfterAppend /\ task[1].op = "getState" /\ ~task[1].threw)
          => UpdateItems(obs.fail[1].update) \subseteq RetItems(1)

\* C38: client frames cannot make a document unreadable.  With a store that
\* works, whatever step2 and update frames were received, every getState and
\* every storeUpdate (with the compaction it triggers) of the handler
\* succeeds.
C38_AlwaysReadable ==
    \A i \in DOMAIN req[1].fx :
       req[1].fx[i].op \in {"getState", "storeUpdate"} => req[1].fx[i].ok

\* C39: documents are isolated.  What getAll returns for the document of a
\* request path are blobs that set wrote for that same document.
C39_GetAllOwnDocument ==
    (task[1].op = "getAllNamed" /\ task[1].pc = "done")
        => \A i \in DOMAIN task[1].ret :
              [doc |-> task[1].docName, blob |-> task[1].ret[i]] \in obs.written

====
